---- MODULE Spec2Model ----
(***************************************************************************)
(* World of bits (D3): the windowed, deterministic grid game of            *)
(* src/main.ts.  The module models three revisions of that file.  The      *)
(* persistence revision (src/unnamed/part_001 lines 828-1885): the sparse  *)
(* override store, the pick-up / merge / place click handler, the          *)
(* viewport-derived window of cell views with memoryless eviction, the two *)
(* movement sources and the debounced save to localStorage.  The           *)
(* movePlayer revision (src/unnamed/part_001 lines 1887-2605, names ending *)
(* in _mp): the player-centred window and its eviction.  src/src/main.ts   *)
(* (names ending in _main): the click handler that merges into the cell.   *)
(*                                                                         *)
(* Numbers.  A latitude or longitude is an integer count of half cells     *)
(* measured from CLASSROOM, so CELL_DEG is 2 units and the centre of cell  *)
(* n is 2n+1.  A luck value r in [0,1) is kept as floor(100 r), which      *)
(* decides r < 0.14, r < 0.20 and r < 0.22 exactly.                        *)
(* A CellKey "row:col" is the pair of its two decimal numerals, and a      *)
(* numeral is kept as the number of quarters it denotes ("3" is 12,        *)
(* "-2.25" is -9), so that printing and parseInt are not the identity.     *)
(* inventory null is <<>>, inventory {value: v} is <<v>>.                  *)
(***************************************************************************)
EXTENDS Integers, Sequences, FiniteSets, TLC

VARIABLES
  revision,            \* which revision of src/main.ts runs (fixed for a run)
  mergeResultInHand,   \* the build's MERGE_RESULT_IN_HAND (fixed for a run)
  luckSeed,            \* which hash the imported luck() is (fixed for a run)
  tokenStore,          \* Map<CellKey, TokenState>: overrides only
  inventory,           \* <<>> or <<value>>
  playerCell,          \* [row, col]
  currentMovementMode, \* "geo" | "buttons"
  lastMemento,         \* _lastMemento: <<>> (null) or <<Memento>>
  saveTimer,           \* TRUE while the 250 ms save timer is pending
  visibleCells,        \* Map<CellKey, CellView>: key -> visual last pushed
  mapBounds,           \* map.getBounds(): [sw, ne] of the Leaflet viewport
  redrawTimer,         \* the handle of scheduleSync: TRUE when set
  redraws,             \* 16 ms timers of scheduleSync that are pending
  buttonCell,          \* ButtonMovementController.currentCell
  watchId,             \* GeolocationMovementController.watchId: TRUE when set
  geoAvailable,        \* "geolocation" in navigator
  localStorage,        \* localStorage[STORAGE_KEY]: <<>> (absent) or <<text>>
  uncaught,            \* TRUE when initMap ended by an uncaught exception
  saveAge,             \* ticks since the pending save timer was set
  sinceTrigger,        \* ticks since scheduleStateSave was last called
  watches,             \* open watchPosition subscriptions of the navigator
  fallbacks,           \* fallback positions emitted since the last start():
                       \* those of start(), and those of GeoErrorCounted
  alerts,              \* number of alert() calls made by the last handler
  positions,           \* number of positions the movement sources handed
                       \* to handleMovementPosition in the last handler
  lastEvent            \* the handler that ran last; a click's cell

vars == <<revision, mergeResultInHand, luckSeed, tokenStore, inventory,
          playerCell, currentMovementMode,
          lastMemento, saveTimer, visibleCells, mapBounds, redrawTimer, redraws,
          buttonCell, watchId, geoAvailable, localStorage, uncaught,
          saveAge, sinceTrigger, watches, fallbacks, alerts, positions,
          lastEvent>>

Event(op, row, col) == [op |-> op, row |-> row, col |-> col]

(* what no handler writes *)
fixed == <<revision, mergeResultInHand, luckSeed>>

(* the clock of the save timer, and the live-location feed *)
clock == <<saveAge, sinceTrigger>>
feed == <<watches, fallbacks>>

-----------------------------------------------------------------------------
(* Config & constants *)

CELL_DEG == 2
INTERACT_RANGE == 3
TARGET == 64
USE_GEOLOCATION == TRUE
MERGE_RESULT_IN_HAND == TRUE
MEMORYLESS == TRUE
VIEW_RADIUS == INTERACT_RANGE + 5
COL_MARGIN == 17
STORAGE_VERSION == 3
SIZE_CAP == 200000
SAVE_DELAY == 2    \* the 250 ms of the save timer, in ticks of 125 ms

(* Bounds of the model *)
MaxCol == 2        \* the viewports show cells of row 0, columns 0..MaxCol
MaxDoublings == 1  \* merges are followed up to 8 * 2^MaxDoublings
NumSeeds == 2      \* luck functions considered

Null == <<>>
Holding(v) == <<v>>
Abs(x) == IF x < 0 THEN -x ELSE x
Max(a, b) == IF a >= b THEN a ELSE b
Min(a, b) == IF a <= b THEN a ELSE b
Restrict(f, S) == [x \in S |-> f[x]]

RECURSIVE Pow2(_)
Pow2(n) == IF n = 0 THEN 1 ELSE 2 * Pow2(n - 1)

MaxValue == 8 * Pow2(MaxDoublings)

-----------------------------------------------------------------------------
(* The imported luck(): a stable hash of a string into [0,1), here         *)
(* floor(100 r).  Its code is not part of the sources; it is a fixed         *)
(* function of the string "cell:row:col:seed1", given by the two numerals s  *)
(* of the string: one of the LuckTable rows per run.                         *)

QUARTERS == 4

LuckTable ==
  << << <<13, 19,  5, 22>>, <<17, 90,  5, 30>> >>,
     << <<21, 50, 20, 14>>, <<14, 22,  0, 21>> >>,
     << <<22, 20, 14, 99>>, <<21, 19, 13, 55>> >> >>

luck(s) ==
  LuckTable[((luckSeed - 1) % 3) + 1]
           [((s[1] \div QUARTERS) % 2) + 1][((s[2] \div QUARTERS) % 4) + 1]

-----------------------------------------------------------------------------
(* Cell identity & keys *)

(* `${n}` of an integer n: its decimal numeral *)
numeral(n) == n * QUARTERS

(* parseInt(s, 10): the integer part of the numeral, truncated toward zero *)
parseInt(s) == IF s < 0 THEN -((-s) \div QUARTERS) ELSE s \div QUARTERS

cellKeyFromRC(row, col) == <<numeral(row), numeral(col)>>

keyOf(row, col) == cellKeyFromRC(row, col)

(* Grid helpers *)

latLngToCell(lat, lng) ==
  [row |-> lat \div CELL_DEG, col |-> lng \div CELL_DEG]

cellBounds(row, col) ==
  [south |-> row * CELL_DEG, north |-> (row + 1) * CELL_DEG,
   west  |-> col * CELL_DEG, east  |-> (col + 1) * CELL_DEG]

cellCenterLatLng(row, col) ==
  LET b == cellBounds(row, col)
  IN  [lat |-> (b.south + b.north) \div 2, lng |-> (b.west + b.east) \div 2]

inRangeOfRow(g, row, col) ==
  Abs(row - g.playerCell.row) <= INTERACT_RANGE

inRangeStrict(g, row, col) ==
  LET dr == Abs(row - g.playerCell.row)
      dc == Abs(col - g.playerCell.col)
  IN  Max(dr, dc) < INTERACT_RANGE

inRange(g, row, col) ==
  LET dr == Abs(row - g.playerCell.row)
      dc == Abs(col - g.playerCell.col)
  IN  Max(dr, dc) <= INTERACT_RANGE

-----------------------------------------------------------------------------
(* Deterministic token spawn + overrides *)

baseTokenValueOfPage(row, col) ==
  LET r == luck(<<numeral(row), numeral(col + Len(localStorage))>>)
  IN  IF r < 14 THEN 2
      ELSE IF r < 20 THEN 4
      ELSE IF r < 22 THEN 8
      ELSE 0

baseTokenValueDoubled(row, col) ==
  LET r == luck(<<numeral(row), numeral(col)>>)
  IN  IF r < 14 THEN 4
      ELSE IF r < 20 THEN 8
      ELSE IF r < 22 THEN 16
      ELSE 0

baseTokenValue(row, col) ==
  LET r == luck(<<numeral(row), numeral(col)>>)
  IN  IF r < 14 THEN 2
      ELSE IF r < 20 THEN 4
      ELSE IF r < 22 THEN 8
      ELSE 0

getEffectiveValue(g, row, col) ==
  LET key == cellKeyFromRC(row, col)
  IN  IF key \in DOMAIN g.tokenStore THEN g.tokenStore[key]
      ELSE baseTokenValue(row, col)

-----------------------------------------------------------------------------
(* JavaScript values, as JSON.parse yields them and JSON.stringify reads   *)
(* them.  The string of a CellKey keeps the key; any other string keeps    *)
(* its characters.                                                         *)

Undefined == [kind |-> "undefined"]
JNull == [kind |-> "null"]
JNum(n) == [kind |-> "number", n |-> n]
JStr(s) == [kind |-> "string", s |-> s]
JKey(key) == [kind |-> "string", key |-> key]
JArr(items) == [kind |-> "array", items |-> items]
JObj(fields) == [kind |-> "object", fields |-> fields]

(* !!v *)
Truthy(v) ==
  CASE v.kind \in {"undefined", "null"} -> FALSE
    [] v.kind = "number" -> v.n # 0
    [] v.kind = "string" -> ("s" \in DOMAIN v => v.s # "")
    [] OTHER -> TRUE

(* v[name] of a value that is neither null nor undefined *)
Get(v, name) ==
  IF v.kind = "object" /\ name \in DOMAIN v.fields THEN v.fields[name]
  ELSE Undefined

(* A text is what JSON.stringify wrote, or one JSON.parse throws on. *)
JSON_stringify(v) == [parses |-> TRUE, value |-> v]
Unparseable == [parses |-> FALSE]

(* the number of characters of JSON.stringify(v) *)
NameLength ==
  [version |-> 7, snapshot |-> 8, tokens |-> 6, inventory |-> 9,
   playerCell |-> 10, movementMode |-> 12, target |-> 6, value |-> 5,
   v |-> 1, row |-> 3, col |-> 3]

StringLength == [geo |-> 3, buttons |-> 7]

RECURSIVE Digits(_)
Digits(n) ==
  IF n < 0 THEN 1 + Digits(-n)
  ELSE IF n < 10 THEN 1 ELSE 1 + Digits(n \div 10)

NumeralLength(q) ==
  (IF q < 0 THEN 1 ELSE 0) + Digits((Abs(q)) \div QUARTERS)
    + (CASE q % QUARTERS = 0 -> 0 [] q % QUARTERS = 2 -> 2 [] OTHER -> 3)

RECURSIVE jsonLength(_), ItemsLength(_, _, _), FieldsLength(_, _)
jsonLength(v) ==
  CASE v.kind = "null" -> 4
    [] v.kind = "number" -> Digits(v.n)
    [] v.kind = "string" ->
         2 + (IF "key" \in DOMAIN v
              THEN NumeralLength(v.key[1]) + 1 + NumeralLength(v.key[2])
              ELSE StringLength[v.s])
    [] v.kind = "array" -> 2 + ItemsLength(v.items, 1, Len(v.items))
    [] v.kind = "object" -> 2 + FieldsLength(v.fields, DOMAIN v.fields)

(* items lo..hi and the commas between them *)
ItemsLength(items, lo, hi) ==
  IF lo > hi THEN 0
  ELSE IF lo = hi THEN jsonLength(items[lo])
  ELSE LET mid == (lo + hi) \div 2
       IN  ItemsLength(items, lo, mid) + 1 + ItemsLength(items, mid + 1, hi)

(* "name":value of every name, and the commas between them *)
FieldsLength(fields, names) ==
  IF names = {} THEN 0
  ELSE LET name == CHOOSE name \in names : TRUE
           rest == names \ {name}
       IN  NameLength[name] + 3 + jsonLength(fields[name])
             + (IF rest = {} THEN 0 ELSE 1 + FieldsLength(fields, rest))

-----------------------------------------------------------------------------
(* Memento and the debounced save *)

(* Array.from(tokenStore.entries()).  A Map iterates in insertion order,   *)
(* which tokenStore does not keep: the entries are listed by row and       *)
(* column.                                                                 *)
entries(store) ==
  IF DOMAIN store = {} THEN <<>>
  ELSE
    LET rows == { parseInt(kk[1]) : kk \in DOMAIN store }
        cols == { parseInt(kk[2]) : kk \in DOMAIN store }
        r0   == CHOOSE r \in rows : \A x \in rows : r <= x
        r1   == CHOOSE r \in rows : \A x \in rows : r >= x
        c0   == CHOOSE c \in cols : \A x \in cols : c <= x
        c1   == CHOOSE c \in cols : \A x \in cols : c >= x
        nc   == c1 - c0 + 1
        cand == [i \in 1..((r1 - r0 + 1) * nc) |->
                   cellKeyFromRC(r0 + ((i - 1) \div nc),
                                 c0 + ((i - 1) % nc))]
        Stored(kk) == kk \in DOMAIN store
        keys == SelectSeq(cand, Stored)
    IN  [i \in 1..Len(keys) |-> <<keys[i], store[keys[i]]>>]

serializeState(g) ==
  LET es == entries(g.tokenStore)
  IN  JObj([tokens       |-> JArr([i \in 1..Len(es) |->
                               JArr(<<JKey(es[i][1]),
                                      JObj([v |-> JNum(es[i][2])])>>)]),
            inventory    |-> IF g.inventory # Null
                             THEN JObj([value |-> JNum(g.inventory[1])])
                             ELSE JNull,
            playerCell   |-> JObj([row |-> JNum(g.playerCell.row),
                                   col |-> JNum(g.playerCell.col)]),
            movementMode |-> JStr(g.currentMovementMode),
            target       |-> JNum(TARGET)])

scheduleStateSaveDropped(g) == [g EXCEPT !.sinceTrigger = 0]

(* the timer is set by the first trigger and left alone by the next ones *)
scheduleStateSave(g) ==
  IF g.saveTimer THEN [g EXCEPT !.sinceTrigger = 0]
  ELSE [g EXCEPT !.saveTimer = TRUE, !.saveAge = 0, !.sinceTrigger = 0]

saveMemento(g) ==
  scheduleStateSave([g EXCEPT !.lastMemento = <<serializeState(g)>>])

setEffectiveValueStoresTokens(g, row, col, value) ==
  LET key  == cellKeyFromRC(row, col)
      base == baseTokenValue(row, col)
      old  == g.tokenStore
      new  == IF value = base /\ value = 0
              THEN IF key \in DOMAIN old
                   THEN Restrict(old, DOMAIN old \ {key})
                   ELSE old
              ELSE (key :> value) @@ old
  IN  saveMemento([g EXCEPT !.tokenStore = new])

setEffectiveValueAlone(g, row, col, value) ==
  LET key  == cellKeyFromRC(row, col)
      base == baseTokenValue(row, col)
  IN  saveMemento([g EXCEPT !.tokenStore =
                     IF value = base THEN <<>> ELSE (key :> value)])

setEffectiveValueUpserts(g, row, col, value) ==
  LET key == cellKeyFromRC(row, col)
      old == g.tokenStore
  IN  saveMemento([g EXCEPT !.tokenStore = (key :> value) @@ old])

setEffectiveValue(g, row, col, value) ==
  LET key  == cellKeyFromRC(row, col)
      base == baseTokenValue(row, col)
      old  == g.tokenStore
      new  == IF value = base
              THEN IF key \in DOMAIN old
                   THEN Restrict(old, DOMAIN old \ {key})
                   ELSE old
              ELSE (key :> value) @@ old
  IN  saveMemento([g EXCEPT !.tokenStore = new])

checkWin(g) ==
  IF g.inventory # Null /\ g.inventory[1] >= TARGET
  THEN [g EXCEPT !.alerts = @ + 1]
  ELSE g


-----------------------------------------------------------------------------
(* Persistence: localStorage holds <<>> or <<text>> *)

(* the payload saveState builds *)
payloadOf(g) ==
  JObj([version |-> JNum(STORAGE_VERSION), snapshot |-> serializeState(g)])

saveStateUncapped(cap, g, storage) == <<JSON_stringify(payloadOf(g))>>

(* saveState, its 200_000 read as `cap` *)
saveStateUnder(cap, g, storage) ==
  LET payload == payloadOf(g)
      json    == JSON_stringify(payload)
  IN  IF jsonLength(payload) > cap THEN storage ELSE <<json>>

saveState(g, storage) == saveStateUnder(SIZE_CAP, g, storage)

loadStateOfAnyVersion(storage) ==
  IF storage = <<>> THEN Null
  ELSE
    LET raw == storage[1]
    IN  IF ~raw.parses THEN Null
        ELSE
          LET payload  == raw.value
              snapshot == Get(payload, "snapshot")
          IN  IF ~Truthy(payload) \/ ~Truthy(snapshot)
              THEN Null
              ELSE IF \/ Get(snapshot, "tokens").kind # "array"
                      \/ ~Truthy(Get(snapshot, "playerCell"))
              THEN Null
              ELSE <<snapshot>>

loadState(storage) ==
  IF storage = <<>> THEN Null
  ELSE
    LET raw == storage[1]
    IN  IF ~raw.parses THEN Null
        ELSE
          LET payload  == raw.value
              snapshot == Get(payload, "snapshot")
          IN  IF \/ ~Truthy(payload)
                 \/ Get(payload, "version") # JNum(STORAGE_VERSION)
                 \/ ~Truthy(snapshot)
              THEN Null
              ELSE IF \/ Get(snapshot, "tokens").kind # "array"
                      \/ ~Truthy(Get(snapshot, "playerCell"))
              THEN Null
              ELSE <<snapshot>>

(* the store with the entries of `later` set after those of `earlier` *)
SetAfter(earlier, later) ==
  [kk \in DOMAIN earlier \cup DOMAIN later |->
     IF kk \in DOMAIN later THEN later[kk] ELSE earlier[kk]]

(* the loop of restoreFromMemento over the entries lo..hi of a cleared     *)
(* store, in order: a later entry overwrites an earlier one of the same    *)
(* key; destructuring an entry that is not an array, and reading .v of a   *)
(* state that is undefined or null, raise a TypeError that ends the loop   *)
RECURSIVE restoreTokens(_, _, _)
restoreTokens(items, lo, hi) ==
  IF lo > hi THEN [store |-> <<>>, raised |-> FALSE]
  ELSE IF lo = hi
  THEN
    LET entry == items[lo]
    IN  IF entry.kind # "array" THEN [store |-> <<>>, raised |-> TRUE]
        ELSE
          LET key   == IF Len(entry.items) >= 1 THEN entry.items[1]
                       ELSE Undefined
              state == IF Len(entry.items) >= 2 THEN entry.items[2]
                       ELSE Undefined
          IN  IF state.kind \in {"undefined", "null"}
              THEN [store |-> <<>>, raised |-> TRUE]
              ELSE [store  |-> [kk \in {key.key} |-> Get(state, "v").n],
                    raised |-> FALSE]
  ELSE
    LET mid   == (lo + hi) \div 2
        first == restoreTokens(items, lo, mid)
    IN  IF first.raised THEN first
        ELSE LET rest == restoreTokens(items, mid + 1, hi)
             IN  [store  |-> SetAfter(first.store, rest.store),
                  raised |-> rest.raised]

restoreFromMementoKeepsCell(g, m) ==
  LET r   == restoreTokens(Get(m, "tokens").items, 1,
                       Len(Get(m, "tokens").items))
      inv == Get(m, "inventory")
  IN  IF r.raised
      THEN [g EXCEPT !.tokenStore = r.store, !.uncaught = TRUE]
      ELSE [g EXCEPT
              !.tokenStore = r.store,
              !.inventory = IF Truthy(inv) THEN Holding(Get(inv, "value").n)
                            ELSE Null]

restoreFromMemento(g, m) ==
  LET r         == restoreTokens(Get(m, "tokens").items, 1,
                       Len(Get(m, "tokens").items))
      inv       == Get(m, "inventory")
      cell      == Get(m, "playerCell")
      mode      == Get(m, "movementMode")
  IN  IF r.raised
      THEN [g EXCEPT !.tokenStore = r.store, !.uncaught = TRUE]
      ELSE [g EXCEPT
              !.tokenStore = r.store,
              !.inventory = IF Truthy(inv) THEN Holding(Get(inv, "value").n)
                            ELSE Null,
              !.playerCell = [row |-> Get(cell, "row").n,
                              col |-> Get(cell, "col").n],
              !.currentMovementMode = IF Truthy(mode) THEN mode.s ELSE @]

loadMemento(g, storage) ==
  LET loaded == loadState(storage)
  IN  IF loaded = Null THEN g
      ELSE restoreFromMemento([g EXCEPT !.lastMemento = loaded], loaded[1])

-----------------------------------------------------------------------------
(* The window of cell views *)

playerVisibleCellRange(g) ==
  LET swCell == latLngToCell(g.mapBounds.sw.lat, g.mapBounds.sw.lng)
      neCell == latLngToCell(g.mapBounds.ne.lat, g.mapBounds.ne.lng)
  IN  [minRow |-> swCell.row + VIEW_RADIUS,
       maxRow |-> neCell.row - VIEW_RADIUS,
       minCol |-> swCell.col + VIEW_RADIUS + COL_MARGIN,
       maxCol |-> neCell.col - VIEW_RADIUS - COL_MARGIN]

(* the keys the two nested loops of a sync visit *)
WindowKeys(rng) ==
  { cellKeyFromRC(row, col) : row \in rng.minRow..rng.maxRow,
                              col \in rng.minCol..rng.maxCol }

CellVisual(g, row, col) ==
  [row |-> row, col |-> col,
   val |-> getEffectiveValue(g, row, col), rangeOK |-> inRange(g, row, col)]

syncViewsSkipsEmpty(g1) ==
  LET rng   == playerVisibleCellRange(g1)
      stale == DOMAIN g1.visibleCells \ WindowKeys(rng)
      shown == [kk \in WindowKeys(rng) |->
                  CellVisual(g1, parseInt(kk[1]), parseInt(kk[2]))]
  IN  IF WindowKeys(rng) = {} THEN g1
      ELSE [g1 EXCEPT !.visibleCells = shown,
                      !.tokenStore = Restrict(g1.tokenStore,
                                              DOMAIN g1.tokenStore \ stale)]

syncViewsEvictsLate(g1) ==
  LET rng   == playerVisibleCellRange(g1)
      shown == [kk \in WindowKeys(rng) |->
                  CellVisual(g1, parseInt(kk[1]), parseInt(kk[2]))]
      live  == DOMAIN g1.visibleCells \cup WindowKeys(rng)
  IN  [g1 EXCEPT !.visibleCells = shown,
                 !.tokenStore = Restrict(g1.tokenStore,
                                         DOMAIN g1.tokenStore \cap live)]

syncViewsForgetsAll(g1) ==
  LET rng   == playerVisibleCellRange(g1)
      shown == [kk \in WindowKeys(rng) |->
                  CellVisual(g1, parseInt(kk[1]), parseInt(kk[2]))]
  IN  [g1 EXCEPT !.visibleCells = shown, !.tokenStore = <<>>]

syncViewsRemembers(g1) ==
  LET rng   == playerVisibleCellRange(g1)
      shown == [kk \in WindowKeys(rng) |->
                  CellVisual(g1, parseInt(kk[1]), parseInt(kk[2]))]
  IN  [g1 EXCEPT !.visibleCells = shown]

syncViewsStoresShown(g1) ==
  LET rng   == playerVisibleCellRange(g1)
      stale == DOMAIN g1.visibleCells \ WindowKeys(rng)
      shown == [kk \in WindowKeys(rng) |->
                  CellVisual(g1, parseInt(kk[1]), parseInt(kk[2]))]
      read  == [kk \in WindowKeys(rng) |-> shown[kk].val] @@ g1.tokenStore
  IN  [g1 EXCEPT !.visibleCells = shown,
                 !.tokenStore = Restrict(read, DOMAIN read \ stale)]

(* syncGridToPlayerWindow after its saveMemento() *)
syncViews(g1) ==
  LET rng   == playerVisibleCellRange(g1)
      stale == DOMAIN g1.visibleCells \ WindowKeys(rng)
      shown == [kk \in WindowKeys(rng) |->
                  LET rc == CHOOSE rc \in (rng.minRow..rng.maxRow) \X
                                          (rng.minCol..rng.maxCol) :
                                  cellKeyFromRC(rc[1], rc[2]) = kk
                  IN  CellVisual(g1, rc[1], rc[2])]
      kept  == IF MEMORYLESS /\ stale \cap DOMAIN g1.tokenStore # {}
               THEN Restrict(g1.tokenStore, DOMAIN g1.tokenStore \ stale)
               ELSE g1.tokenStore
  IN  [g1 EXCEPT !.visibleCells = shown, !.tokenStore = kept]

syncKeepsStaleViews(g) ==
  LET g1  == saveMemento(g)
      rng == playerVisibleCellRange(g1)
  IN  [g1 EXCEPT !.visibleCells =
         [kk \in DOMAIN g1.visibleCells \cup WindowKeys(rng) |->
            CellVisual(g1, parseInt(kk[1]), parseInt(kk[2]))]]

syncGridToPlayerWindow(g) == syncViews(saveMemento(g))

refreshVisibleCells(g) ==
  [g EXCEPT !.visibleCells =
     [kk \in DOMAIN g.visibleCells |->
        CellVisual(g, parseInt(kk[1]), parseInt(kk[2]))]]

updateCellLeavesVisual(g, row, col) == g

updateCell(g, row, col) ==
  LET kk == keyOf(row, col)
  IN  IF kk \notin DOMAIN g.visibleCells THEN g
      ELSE [g EXCEPT !.visibleCells[kk] = CellVisual(g, row, col)]

-----------------------------------------------------------------------------
(* The click handler *)

(* A) Pick up *)
PickUpKeepsCell(g, row, col, cellVal) ==
  checkWin(updateCell([g EXCEPT !.inventory = Holding(cellVal)], row, col))

PickUp(g, row, col, cellVal) ==
  LET g1 == [g EXCEPT !.inventory = Holding(cellVal)]
      g2 == setEffectiveValue(g1, row, col, 0)
  IN  checkWin(updateCell(g2, row, col))

(* B) Merge equal *)
MergeEqualKeepsCell(g, row, col, held) ==
  checkWin(updateCell([g EXCEPT !.inventory = Holding(held * 2)], row, col))

MergeEqualTriples(g, row, col, held) ==
  LET newVal == held * 3
      g2 == IF mergeResultInHand
            THEN [setEffectiveValue(g, row, col, 0)
                    EXCEPT !.inventory = Holding(newVal)]
            ELSE [setEffectiveValue(g, row, col, newVal)
                    EXCEPT !.inventory = Null]
  IN  checkWin(updateCell(g2, row, col))

MergeEqual(g, row, col, held) ==
  LET newVal == held * 2
      g2 == IF mergeResultInHand
            THEN [setEffectiveValue(g, row, col, 0)
                    EXCEPT !.inventory = Holding(newVal)]
            ELSE [setEffectiveValue(g, row, col, newVal)
                    EXCEPT !.inventory = Null]
  IN  checkWin(updateCell(g2, row, col))

(* C) Place into empty cell *)
PlaceKeepsHand(g, row, col, held) ==
  updateCell(setEffectiveValue(g, row, col, held), row, col)

PlaceIntoEmptyCell(g, row, col, held) ==
  LET g2 == [setEffectiveValue(g, row, col, held) EXCEPT !.inventory = Null]
  IN  updateCell(g2, row, col)

handleCellClickPicksEmpty(g, row, col) ==
  IF ~inRange(g, row, col) THEN g
  ELSE
    LET cellVal == getEffectiveValue(g, row, col)
    IN  IF g.inventory = Null
        THEN PickUp(g, row, col, cellVal)
        ELSE
          LET held == g.inventory[1]
          IN  IF cellVal = held /\ held > 0
              THEN MergeEqual(g, row, col, held)
              ELSE IF cellVal = 0
              THEN PlaceIntoEmptyCell(g, row, col, held)
              ELSE g

handleCellClick(g, row, col) ==
  IF ~inRange(g, row, col) THEN g
  ELSE
    LET cellVal == getEffectiveValue(g, row, col)
    IN  IF g.inventory = Null
        THEN IF cellVal > 0 THEN PickUp(g, row, col, cellVal) ELSE g
        ELSE
          LET held == g.inventory[1]
          IN  IF cellVal = held /\ held > 0
              THEN MergeEqual(g, row, col, held)
              ELSE IF cellVal = 0
              THEN PlaceIntoEmptyCell(g, row, col, held)
              ELSE g

(* Shared callback of the movement sources *)

handleMovementPosition(g, lat, lng) ==
  LET cc == latLngToCell(lat, lng)
      g1 == [g EXCEPT !.playerCell = cc, !.positions = @ + 1]
  IN  checkWin(refreshVisibleCells(syncGridToPlayerWindow(g1)))


-----------------------------------------------------------------------------
(* Movement sources.  The fields of the two controllers and what the      *)
(* navigator holds for them are the record Sources; a method returns       *)
(* [g, s].                                                                 *)

CLASSROOM == [lat |-> 0, lng |-> 0]

activeMovement == currentMovementMode

Sources ==
  [buttonCell |-> buttonCell, watchId |-> watchId,
   watches |-> watches, fallbacks |-> fallbacks]

ButtonStartTwice(g, cell) ==
  LET centerLL == cellCenterLatLng(cell.row, cell.col)
  IN  handleMovementPosition(
        handleMovementPosition(g, centerLL.lat, centerLL.lng),
        centerLL.lat, centerLL.lng)

ButtonStart(g, cell) ==
  LET centerLL == cellCenterLatLng(cell.row, cell.col)
  IN  handleMovementPosition(g, centerLL.lat, centerLL.lng)

stepByTransposed(g, cell, dx, dy) ==
  LET next     == [row |-> cell.row + dx, col |-> cell.col + dy]
      centerLL == cellCenterLatLng(next.row, next.col)
  IN  [g |-> handleMovementPosition(g, centerLL.lat, centerLL.lng),
       buttonCell |-> next]

stepBy(g, cell, dx, dy) ==
  LET next     == [row |-> cell.row + dy, col |-> cell.col + dx]
      centerLL == cellCenterLatLng(next.row, next.col)
  IN  [g |-> handleMovementPosition(g, centerLL.lat, centerLL.lng),
       buttonCell |-> next]

(* GeolocationMovementController.start *)
GeoStart(g, s) ==
  IF ~geoAvailable
  THEN [g |-> handleMovementPosition(g, CLASSROOM.lat, CLASSROOM.lng),
        s |-> [s EXCEPT !.fallbacks = 1]]
  ELSE [g |-> g,
        s |-> [s EXCEPT !.watchId = TRUE, !.watches = @ + 1,
                        !.fallbacks = 0]]

(* GeolocationMovementController.stop *)
GeoStop(s) ==
  IF s.watchId THEN [s EXCEPT !.watchId = FALSE, !.watches = @ - 1]
  ELSE s

useMovementKeepsWatch(g, s, next) ==
  IF g.currentMovementMode = next THEN [g |-> g, s |-> s]
  ELSE
    LET s1 == IF next = "buttons"
              THEN [s EXCEPT !.buttonCell = [row |-> g.playerCell.row,
                                             col |-> g.playerCell.col]]
              ELSE s
        g1 == [g EXCEPT !.currentMovementMode = next]
    IN  IF next = "buttons"
        THEN [g |-> saveMemento(ButtonStart(g1, s1.buttonCell)), s |-> s1]
        ELSE LET st == GeoStart(g1, s1)
             IN  [g |-> saveMemento(st.g), s |-> st.s]

useMovement(g, s, next) ==
  IF g.currentMovementMode = next THEN [g |-> g, s |-> s]
  ELSE
    LET s1 == IF next = "buttons"
              THEN [s EXCEPT !.buttonCell = [row |-> g.playerCell.row,
                                             col |-> g.playerCell.col]]
              ELSE s
        s2 == IF g.currentMovementMode = "geo" THEN GeoStop(s1) ELSE s1
        g1 == [g EXCEPT !.currentMovementMode = next]
    IN  IF next = "buttons"
        THEN [g |-> saveMemento(ButtonStart(g1, s2.buttonCell)), s |-> s2]
        ELSE LET st == GeoStart(g1, s2)
             IN  [g |-> saveMemento(st.g), s |-> st.s]

-----------------------------------------------------------------------------
(* The Leaflet viewport is the environment's: the model lets it be any of  *)
(* Viewports: its window is row 0, columns 0..MaxCol or 0..MaxCol-1, or   *)
(* the viewport is too small to show any cell.                             *)

Viewport(c1) ==
  [sw |-> [lat |-> CELL_DEG * (0 - VIEW_RADIUS),
           lng |-> CELL_DEG * (0 - VIEW_RADIUS - COL_MARGIN) + 1],
   ne |-> [lat |-> CELL_DEG * VIEW_RADIUS + 1,
           lng |-> CELL_DEG * (c1 + VIEW_RADIUS + COL_MARGIN)]]

NarrowViewport ==
  [sw |-> [lat |-> -1, lng |-> -1], ne |-> [lat |-> 1, lng |-> 1]]

Viewports ==
  { Viewport(c1) : c1 \in (MaxCol - 1)..MaxCol } \cup {NarrowViewport}

InitialViewport == Viewport(MaxCol)

(* The D-pad is followed inside PlayerBox.  A live-location fix reports the *)
(* centre of a cell of PlayerBox or of a far cell (out of reach of column 0 *)
(* or of every row), or the south-west corner of the origin cell.           *)
PlayerBox ==
  { [row |-> 0, col |-> c] : c \in 0..(MaxCol - 1) }

FarCells ==
  { [row |-> INTERACT_RANGE + 1, col |-> 0],
    [row |-> 0, col |-> INTERACT_RANGE + 1] }

GeoFixes ==
  { cellCenterLatLng(p.row, p.col) : p \in PlayerBox \cup FarCells }
    \cup {CLASSROOM}

(* the fixes that keep the player inside PlayerBox *)
NearFixes == { cellCenterLatLng(p.row, p.col) : p \in PlayerBox }

Steps == { <<0, 1>>, <<-1, 0>>, <<0, -1>>, <<1, 0>> }

-----------------------------------------------------------------------------
(* State *)

Cur ==
  [tokenStore |-> tokenStore, inventory |-> inventory,
   playerCell |-> playerCell, currentMovementMode |-> currentMovementMode,
   lastMemento |-> lastMemento, saveTimer |-> saveTimer,
   visibleCells |-> visibleCells, mapBounds |-> mapBounds,
   uncaught |-> uncaught, saveAge |-> saveAge,
   sinceTrigger |-> sinceTrigger, alerts |-> 0, positions |-> 0]

Commit(g) ==
  /\ tokenStore' = g.tokenStore
  /\ inventory' = g.inventory
  /\ playerCell' = g.playerCell
  /\ currentMovementMode' = g.currentMovementMode
  /\ lastMemento' = g.lastMemento
  /\ saveTimer' = g.saveTimer
  /\ visibleCells' = g.visibleCells
  /\ mapBounds' = g.mapBounds
  /\ uncaught' = g.uncaught
  /\ saveAge' = g.saveAge
  /\ sinceTrigger' = g.sinceTrigger
  /\ alerts' = g.alerts
  /\ positions' = g.positions

CommitSources(s) ==
  /\ buttonCell' = s.buttonCell
  /\ watchId' = s.watchId
  /\ watches' = s.watches
  /\ fallbacks' = s.fallbacks

Defaults ==
  [tokenStore |-> <<>>, inventory |-> Null,
   playerCell |-> latLngToCell(CLASSROOM.lat, CLASSROOM.lng),
   currentMovementMode |-> IF USE_GEOLOCATION THEN "geo" ELSE "buttons",
   lastMemento |-> Null, saveTimer |-> FALSE,
   visibleCells |-> <<>>, mapBounds |-> InitialViewport,
   uncaught |-> FALSE, saveAge |-> 0, sinceTrigger |-> SAVE_DELAY,
   alerts |-> 0, positions |-> 0]

(* the controllers of a fresh page, before either is constructed *)
NoSources ==
  [buttonCell |-> latLngToCell(CLASSROOM.lat, CLASSROOM.lng),
   watchId |-> FALSE, watches |-> 0, fallbacks |-> 0]

(* the end of initMap: the active source is started *)
startActive(g2) ==
  LET s == [NoSources EXCEPT !.buttonCell = [row |-> g2.playerCell.row,
                                             col |-> g2.playerCell.col]]
  IN  IF g2.currentMovementMode = "geo" THEN GeoStart(g2, s)
      ELSE [g |-> ButtonStart(g2, s.buttonCell), s |-> s]

(* initMap after loadMemento: an exception of loadMemento leaves initMap   *)
(* there; else two initial syncs                                           *)
initLoaded(g1) ==
  IF g1.uncaught THEN [g |-> g1, s |-> NoSources]
  ELSE startActive(syncGridToPlayerWindow(syncGridToPlayerWindow(g1)))

(* initMap on a fresh page: load, two initial syncs, start the active      *)
(* source                                                                  *)
initMap(storage) == initLoaded(loadMemento(Defaults, storage))

(* the variables hold what initMap left *)
Started(st) ==
  /\ tokenStore = st.g.tokenStore
  /\ inventory = st.g.inventory
  /\ playerCell = st.g.playerCell
  /\ currentMovementMode = st.g.currentMovementMode
  /\ lastMemento = st.g.lastMemento
  /\ saveTimer = st.g.saveTimer
  /\ visibleCells = st.g.visibleCells
  /\ mapBounds = st.g.mapBounds
  /\ uncaught = st.g.uncaught
  /\ saveAge = st.g.saveAge
  /\ sinceTrigger = st.g.sinceTrigger
  /\ alerts = st.g.alerts
  /\ positions = st.g.positions
  /\ buttonCell = st.s.buttonCell
  /\ watchId = st.s.watchId
  /\ watches = st.s.watches
  /\ fallbacks = st.s.fallbacks

(* the page opened on the stored text `storage` *)
InitOn(storage, policies) ==
  /\ revision = "persistence"
  /\ mergeResultInHand \in policies
  /\ luckSeed \in 1..NumSeeds
  /\ geoAvailable \in BOOLEAN
  /\ localStorage = storage
  /\ redrawTimer = FALSE
  /\ redraws = 0
  /\ Started(initMap(storage))
  /\ lastEvent = Event("initMap", 0, 0)

InitPersistence(policies) == InitOn(<<>>, policies)

Init == InitPersistence({MERGE_RESULT_IN_HAND})

-----------------------------------------------------------------------------
(* Events *)

(* a click on the rectangle of a live CellView *)
MergeWithinBound(row, col, cap) ==
  inventory # Null /\ getEffectiveValue(Cur, row, col) = inventory[1]
    => 2 * inventory[1] <= cap

ClickCell(row, col, cap) ==
  /\ keyOf(row, col) \in DOMAIN visibleCells
  /\ MergeWithinBound(row, col, cap)
  /\ Commit(handleCellClick(Cur, row, col))
  /\ lastEvent' = Event("click", row, col)
  /\ UNCHANGED <<fixed, redrawTimer, redraws, buttonCell, watchId, feed, geoAvailable,
                 localStorage>>

ClickUpTo(cap) ==
  \E kk \in DOMAIN visibleCells :
    ClickCell(visibleCells[kk].row, visibleCells[kk].col, cap)

Click == ClickUpTo(MaxValue)

scheduleSyncAgain(t) == [handle |-> TRUE, pending |-> t.pending + 1]

(* scheduleSync on the handle and the pending timers t *)
scheduleSync(t) ==
  IF t.handle THEN t ELSE [handle |-> TRUE, pending |-> t.pending + 1]

(* the map's "move" event: the viewport changed, scheduleSync runs *)
MapMoveTo(viewports) ==
  \E b \in viewports \ {mapBounds} :
    /\ mapBounds' = b
    /\ redrawTimer' =
         scheduleSync([handle |-> redrawTimer, pending |-> redraws]).handle
    /\ redraws' =
         scheduleSync([handle |-> redrawTimer, pending |-> redraws]).pending
    /\ alerts' = 0
    /\ positions' = 0
    /\ lastEvent' = Event("move", 0, 0)
    /\ UNCHANGED <<fixed, tokenStore, inventory, playerCell,
                   currentMovementMode, lastMemento, saveTimer, visibleCells,
                   buttonCell, watchId, feed, geoAvailable, localStorage,
                   uncaught, clock>>

MapMove == MapMoveTo(Viewports)

(* the map's "moveend" event: both registered handlers run a sync *)
MapMoveEnd ==
  /\ Commit(syncGridToPlayerWindow(syncGridToPlayerWindow(Cur)))
  /\ lastEvent' = Event("moveend", 0, 0)
  /\ UNCHANGED <<fixed, redrawTimer, redraws, buttonCell, watchId, feed, geoAvailable,
                 localStorage>>

(* the 16 ms timer of scheduleSync *)
RedrawTimerFire ==
  /\ redraws > 0
  /\ redraws' = redraws - 1
  /\ redrawTimer' = FALSE
  /\ Commit(syncGridToPlayerWindow(Cur))
  /\ lastEvent' = Event("redraw", 0, 0)
  /\ UNCHANGED <<fixed, buttonCell, watchId, feed, geoAvailable,
                 localStorage>>

(* the callback of the save timer, run once the timer is `delay` ticks    *)
(* old, with `cap` as the cap of saveState                                 *)
SaveTimerRun(delay, cap) ==
  /\ saveTimer
  /\ saveAge >= delay
  /\ saveTimer' = FALSE
  /\ saveAge' = 0
  /\ localStorage' = saveStateUnder(cap, Cur, localStorage)
  /\ alerts' = 0
  /\ positions' = 0
  /\ lastEvent' = Event("save", 0, 0)
  /\ UNCHANGED <<fixed, tokenStore, inventory, playerCell,
                 currentMovementMode, lastMemento, visibleCells, mapBounds,
                 redrawTimer, redraws, buttonCell, watchId, feed, geoAvailable,
                 uncaught, sinceTrigger>>

SaveTimerFireAfter(delay) == SaveTimerRun(delay, SIZE_CAP)

(* the 250 ms timer of scheduleStateSave, where the clock is not followed: *)
(* it fires at any moment while pending                                    *)
SaveTimerFire == SaveTimerFireAfter(0)

(* a D-pad button, shown while the button source is active, stepping       *)
(* inside `box`; the move events of its animated pan are MapMove and       *)
(* MapMoveEnd                                                              *)
StepWithin(box) ==
  \E d \in Steps :
    /\ activeMovement = "buttons"
    /\ [row |-> buttonCell.row + d[2], col |-> buttonCell.col + d[1]] \in box
    /\ LET st == stepBy(Cur, buttonCell, d[1], d[2])
       IN  Commit(st.g) /\ buttonCell' = st.buttonCell
    /\ lastEvent' = Event("stepBy", d[2], d[1])
    /\ UNCHANGED <<fixed, redrawTimer, redraws, watchId, feed, geoAvailable,
                   localStorage>>

StepBy == StepWithin(PlayerBox)

(* the success callback of watchPosition *)
GeoPositionIn(fixes) ==
  \E ll \in fixes :
    /\ watches > 0
    /\ Commit(handleMovementPosition(Cur, ll.lat, ll.lng))
    /\ lastEvent' = Event("geoPosition", 0, 0)
    /\ UNCHANGED <<fixed, redrawTimer, redraws, buttonCell, watchId, feed,
                   geoAvailable, localStorage>>

GeoPosition == GeoPositionIn(GeoFixes)

(* the error callback of watchPosition *)
GeoErrorCallback ==
  /\ watches > 0
  /\ Commit(handleMovementPosition(Cur, CLASSROOM.lat, CLASSROOM.lng))
  /\ lastEvent' = Event("geoError", 0, 0)
  /\ UNCHANGED <<fixed, redrawTimer, redraws, buttonCell, watchId, watches,
                 geoAvailable, localStorage>>

(* ... where the fallback positions it emits are not counted *)
GeoError == GeoErrorCallback /\ UNCHANGED fallbacks

(* ... where they are counted: 0, 1, many *)
GeoErrorCounted ==
  GeoErrorCallback /\ fallbacks' = IF fallbacks = 0 THEN 1 ELSE 2

(* the mode toggle button *)
ToggleMode ==
  /\ LET next == IF activeMovement = "buttons" THEN "geo" ELSE "buttons"
         st   == useMovement(Cur, Sources, next)
     IN  Commit(st.g) /\ CommitSources(st.s)
  /\ lastEvent' = Event("toggleMode", 0, 0)
  /\ UNCHANGED <<fixed, redrawTimer, redraws, geoAvailable, localStorage>>

(* the page is loaded again: timers and subscriptions die, initMap runs on *)
(* the stored text                                                         *)
Reload ==
  /\ LET st == initMap(localStorage)
     IN  Commit(st.g) /\ CommitSources(st.s)
  /\ redrawTimer' = FALSE
  /\ redraws' = 0
  /\ lastEvent' = Event("initMap", 0, 0)
  /\ UNCHANGED <<fixed, geoAvailable, localStorage>>

newGameKeepsStore(g) ==
  [g EXCEPT !.inventory = Null, !.lastMemento = Null,
            !.playerCell = latLngToCell(CLASSROOM.lat, CLASSROOM.lng)]

(* the in-memory part of the "New game" listener, once confirmed *)
newGame(g) ==
  [g EXCEPT !.tokenStore = <<>>, !.inventory = Null, !.lastMemento = Null,
            !.playerCell = latLngToCell(CLASSROOM.lat, CLASSROOM.lng)]

(* The click listener of the "New game" button; ok is the answer to        *)
(* confirm().  location.reload() starts a navigation: the page is replaced *)
(* by a later task, the action Reload, and the timers and callbacks that   *)
(* are due before it still run.                                            *)
NewGame ==
  \E ok \in BOOLEAN :
    /\ IF ok
       THEN /\ localStorage' = <<>>
            /\ Commit(newGame(Cur))
            /\ lastEvent' = Event("newGame", 0, 0)
       ELSE /\ localStorage' = localStorage
            /\ Commit(Cur)
            /\ lastEvent' = Event("newGameDeclined", 0, 0)
    /\ UNCHANGED <<fixed, redrawTimer, redraws, buttonCell, watchId, feed,
                   geoAvailable>>

(* Play with the live-location source: clicks, viewport changes and the   *)
(* resync timer, position fixes and errors.                               *)
Next ==
  \/ Click
  \/ MapMove
  \/ MapMoveEnd
  \/ RedrawTimerFire
  \/ GeoPosition
  \/ GeoError

Spec == Init /\ [][Next]_vars

(* Crafting under a resting viewport: clicks and position fixes only.     *)
NextCraft ==
  \/ Click
  \/ GeoPosition
  \/ GeoError

SpecCraft == Init /\ [][NextCraft]_vars

-----------------------------------------------------------------------------
(* The crafting table *)

EffectiveValue(row, col) == getEffectiveValue(Cur, row, col)

Chebyshev(row, col) ==
  Max(Abs(row - playerCell.row), Abs(col - playerCell.col))

ClickOn(row, col) == ClickCell(row, col, MaxValue)

ViewCells == { <<visibleCells[kk].row, visibleCells[kk].col>> :
                 kk \in DOMAIN visibleCells }

(* what a well-formed Memento holds: its inventory, and its token entries  *)
(* as a map from key to value                                              *)
HeldIn(m) ==
  IF m.fields.inventory.kind = "object"
  THEN Holding(m.fields.inventory.fields.value.n)
  ELSE Null

TokensIn(m) ==
  LET items == m.fields.tokens.items
  IN  [kk \in { items[i].items[1].key : i \in DOMAIN items } |->
         LET i == CHOOSE i \in DOMAIN items : items[i].items[1].key = kk
         IN  items[i].items[2].fields.v.n]

(* the snapshot of a text that saveState wrote *)
SnapshotOf(text) == text.value.fields.snapshot

(* C1: a click on an in-range cell of effective value v > 0 with an empty  *)
(* inventory leaves the inventory Holding(v) and the cell's effective      *)
(* value 0.                                                                *)
PickUpTakesToken ==
  [][\A rc \in ViewCells :
       LET v == EffectiveValue(rc[1], rc[2])
       IN  /\ ClickOn(rc[1], rc[2])
           /\ Chebyshev(rc[1], rc[2]) <= INTERACT_RANGE
           /\ inventory = Null
           /\ v > 0
           => /\ inventory' = Holding(v)
              /\ EffectiveValue(rc[1], rc[2])' = 0]_vars

(* the last click picked the token of its cell up *)
PickedUp ==
  /\ lastEvent.op = "click"
  /\ inventory # Null
  /\ inventory = Holding(baseTokenValue(lastEvent.row, lastEvent.col))
  /\ lastMemento = <<serializeState(Cur)>>
  /\ EffectiveValue(lastEvent.row, lastEvent.col) = 0

(* C2: with the merge result staying in the hand, a click on an in-range   *)
(* cell whose effective value equals the held value h > 0 leaves the       *)
(* inventory Holding(2h) and the cell's effective value 0.                 *)
MergeDoublesInHand ==
  [][\A rc \in ViewCells :
       /\ ClickOn(rc[1], rc[2])
       /\ Chebyshev(rc[1], rc[2]) <= INTERACT_RANGE
       /\ mergeResultInHand
       /\ inventory # Null
       /\ inventory[1] > 0
       /\ EffectiveValue(rc[1], rc[2]) = inventory[1]
       => /\ inventory' = Holding(2 * inventory[1])
          /\ EffectiveValue(rc[1], rc[2])' = 0]_vars

(* the last click merged: the memento taken during it still holds h *)
Merged ==
  /\ lastEvent.op = "click"
  /\ inventory # Null
  /\ lastMemento # Null
  /\ HeldIn(lastMemento[1]) # Null
  /\ inventory = Holding(2 * HeldIn(lastMemento[1])[1])
  /\ EffectiveValue(lastEvent.row, lastEvent.col) = 0

(* C3: a click on an in-range cell of effective value 0 while Holding(h)   *)
(* leaves the cell's effective value h and the inventory empty.            *)
PlacePutsTokenDown ==
  [][\A rc \in ViewCells :
       /\ ClickOn(rc[1], rc[2])
       /\ Chebyshev(rc[1], rc[2]) <= INTERACT_RANGE
       /\ inventory # Null
       /\ EffectiveValue(rc[1], rc[2]) = 0
       => /\ inventory' = Null
          /\ EffectiveValue(rc[1], rc[2])' = inventory[1]]_vars

(* the last click placed the held token: the memento still holds it *)
Placed ==
  /\ lastEvent.op = "click"
  /\ inventory = Null
  /\ lastMemento # Null
  /\ HeldIn(lastMemento[1]) # Null
  /\ EffectiveValue(lastEvent.row, lastEvent.col)
       = HeldIn(lastMemento[1])[1]

(* C4: a click on an in-range cell of value v while Holding(h), v # h and  *)
(* v # 0, and a click on an in-range cell of value 0 with an empty         *)
(* inventory, leave inventory, tokenStore and playerCell unchanged.        *)
RuleViolatingClickIsNoOp ==
  [][\A rc \in ViewCells :
       LET v == EffectiveValue(rc[1], rc[2])
       IN  /\ ClickOn(rc[1], rc[2])
           /\ Chebyshev(rc[1], rc[2]) <= INTERACT_RANGE
           /\ \/ inventory # Null /\ v # inventory[1] /\ v # 0
              \/ inventory = Null /\ v = 0
           => UNCHANGED <<inventory, tokenStore, playerCell>>]_vars

(* the last click was on an in-range occupied cell of another value than   *)
(* the held one, which is still held                                       *)
ClickedUnequal ==
  /\ lastEvent.op = "click"
  /\ Chebyshev(lastEvent.row, lastEvent.col) <= INTERACT_RANGE
  /\ inventory # Null
  /\ EffectiveValue(lastEvent.row, lastEvent.col) \notin {0, inventory[1]}

(* C5: a click on a cell whose Chebyshev distance from playerCell exceeds  *)
(* INTERACT_RANGE leaves inventory and tokenStore unchanged and raises no  *)
(* win alert.                                                              *)
OutOfRangeClickIsNoOp ==
  [][\A rc \in ViewCells :
       /\ ClickOn(rc[1], rc[2])
       /\ Chebyshev(rc[1], rc[2]) > INTERACT_RANGE
       => /\ UNCHANGED <<inventory, tokenStore>>
          /\ alerts' = 0]_vars

(* the last click was on an occupied cell out of range, with a free hand *)
ClickedOutOfRange ==
  /\ lastEvent.op = "click"
  /\ Chebyshev(lastEvent.row, lastEvent.col) > INTERACT_RANGE
  /\ inventory = Null
  /\ EffectiveValue(lastEvent.row, lastEvent.col) > 0

-----------------------------------------------------------------------------
(* The window *)

(* handlers whose last change of visibleCells is a sync *)
SyncEvents == {"initMap", "moveend", "redraw", "geoPosition", "geoError"}

(* C8: right after every sync, visibleCells holds one CellView for every   *)
(* cell (r, c) with minRow <= r <= maxRow and minCol <= c <= maxCol of the *)
(* window just computed, and none for a cell outside it.                   *)
WindowExactness ==
  lastEvent.op \in SyncEvents =>
    LET rng == playerVisibleCellRange(Cur)
    IN  /\ \A r \in rng.minRow..rng.maxRow, c \in rng.minCol..rng.maxCol :
             /\ keyOf(r, c) \in DOMAIN visibleCells
             /\ visibleCells[keyOf(r, c)].row = r
             /\ visibleCells[keyOf(r, c)].col = c
        /\ \A kk \in DOMAIN visibleCells :
             /\ visibleCells[kk].row \in rng.minRow..rng.maxRow
             /\ visibleCells[kk].col \in rng.minCol..rng.maxCol
             /\ kk = keyOf(visibleCells[kk].row, visibleCells[kk].col)

(* the viewport shrank and a sync dropped the view of the last column *)
WindowShrank ==
  /\ lastEvent.op \in {"moveend", "redraw"}
  /\ mapBounds = Viewport(MaxCol - 1)
  /\ keyOf(0, MaxCol - 1) \in DOMAIN visibleCells
  /\ keyOf(0, MaxCol) \notin DOMAIN visibleCells

(* A whole session under a resting viewport: play at the origin with both *)
(* movement sources, the save timer and reloads of the page.              *)
SessionClick == ClickUpTo(MaxValue \div 2)

NextSession ==
  \/ SessionClick
  \/ MapMoveEnd
  \/ GeoError
  \/ ToggleMode
  \/ SaveTimerFire
  \/ Reload

SpecSession == Init /\ [][NextSession]_vars

(* C22: in every state, of two calls of syncGridToPlayerWindow in a row   *)
(* the second creates no CellView, destroys none and leaves the override   *)
(* store as the first left it.                                             *)
SyncIdempotence ==
  LET once  == syncGridToPlayerWindow(Cur)
      twice == syncGridToPlayerWindow(once)
  IN  /\ DOMAIN twice.visibleCells \ DOMAIN once.visibleCells = {}
      /\ DOMAIN once.visibleCells \ DOMAIN twice.visibleCells = {}
      /\ twice.tokenStore = once.tokenStore

(* the viewport has moved and the resync is pending: the first call        *)
(* destroys views and evicts an override                                   *)
SyncPending ==
  LET once == syncGridToPlayerWindow(Cur)
  IN  /\ redrawTimer
      /\ DOMAIN visibleCells \ DOMAIN once.visibleCells # {}
      /\ once.tokenStore # tokenStore

-----------------------------------------------------------------------------
(* The resync throttle.  A callback handed to setTimeout runs once its     *)
(* delay has passed: the pending timer of scheduleSync is not left pending *)
(* for ever.                                                               *)

NextThrottle ==
  \/ MapMove
  \/ MapMoveEnd
  \/ RedrawTimerFire
  \/ SessionClick
  \/ GeoPositionIn(NearFixes)

RedrawTimerCallback == redraws > 0 /\ redraws' = redraws - 1

SpecThrottle ==
  Init /\ [][NextThrottle]_vars /\ WF_redraws(RedrawTimerCallback)

(* the views are those of the window of the viewport as it is *)
ViewSynced == DOMAIN visibleCells = WindowKeys(playerVisibleCellRange(Cur))

(* C25: at most one resync timer is pending; a "move" that arrives while   *)
(* one is pending starts no other; and a pending timer leads to a sync     *)
(* under the viewport as it is then, so that with no timer pending the     *)
(* views are those of the last viewport.                                   *)
ResyncThrottle ==
  /\ [](redraws <= 1)
  /\ [][lastEvent'.op = "move" /\ redraws > 0
          => redraws' = redraws /\ visibleCells' = visibleCells]_vars
  /\ [](redraws = 0 => ViewSynced)
  /\ (redraws > 0) ~> (lastEvent.op = "redraw" /\ ViewSynced)

(* the timer of a burst of moves has run: the views are those of another   *)
(* viewport than the resting one                                           *)
BurstSynced ==
  /\ lastEvent.op = "redraw"
  /\ redraws = 0
  /\ mapBounds = Viewport(MaxCol - 1)
  /\ ViewSynced
  /\ DOMAIN visibleCells # WindowKeys(playerVisibleCellRange(
                              [mapBounds |-> InitialViewport]))

-----------------------------------------------------------------------------
(* Malformed windows.  NarrowViewport is too small on both axes for the    *)
(* margins taken off it; SlitViewport has the rows of the resting viewport *)
(* and too few columns.                                                    *)

SlitViewport ==
  [sw |-> [lat |-> InitialViewport.sw.lat, lng |-> -1],
   ne |-> [lat |-> InitialViewport.ne.lat, lng |-> 1]]

MapZoom == MapMoveTo(Viewports \cup {SlitViewport})

NextMalformed ==
  \/ Click
  \/ MapZoom
  \/ MapMoveEnd
  \/ RedrawTimerFire
  \/ GeoPosition

SpecMalformed == Init /\ [][NextMalformed]_vars

Malformed(rng) == rng.minRow > rng.maxRow \/ rng.minCol > rng.maxCol

(* C23: a sync that computes a window with min > max on an axis leaves no  *)
(* CellView, whatever was visible before, and raises nothing.              *)
MalformedWindow ==
  [][/\ lastEvent'.op \in SyncEvents
     /\ Malformed(playerVisibleCellRange([mapBounds |-> mapBounds']))
     => /\ DOMAIN visibleCells' = {}
        /\ ~uncaught']_vars

(* a sync under the slit, whose rows are in order and whose columns are    *)
(* not, has left no view                                                   *)
SlitSynced ==
  /\ lastEvent.op \in SyncEvents
  /\ mapBounds = SlitViewport
  /\ playerVisibleCellRange(Cur).minRow <= playerVisibleCellRange(Cur).maxRow
  /\ playerVisibleCellRange(Cur).minCol > playerVisibleCellRange(Cur).maxCol
  /\ DOMAIN visibleCells = {}

-----------------------------------------------------------------------------
(* Token progression *)

IsTokenValue(v) == \E n \in 1..(3 + MaxDoublings) : v = Pow2(n)

(* how many overrides hold v, and the hand if it holds v *)
Occurrences(tokens, held, v) ==
  Cardinality({ key \in DOMAIN tokens : tokens[key] = v })
    + (IF held = Holding(v) THEN 1 ELSE 0)

(* C27: from the empty store and the empty hand, every effective value of  *)
(* a cell is 0 or a power of two >= 2, a held value is a power of two >= 2, *)
(* and a step that adds an occurrence of a value above 8 to the overrides  *)
(* and the hand is a click that merges two tokens of half that value.      *)
TokenProgression ==
  /\ [](/\ \A rc \in ViewCells :
            \/ getEffectiveValue(Cur, rc[1], rc[2]) = 0
            \/ IsTokenValue(getEffectiveValue(Cur, rc[1], rc[2]))
        /\ \A key \in DOMAIN tokenStore :
            tokenStore[key] = 0 \/ IsTokenValue(tokenStore[key])
        /\ inventory # Null => IsTokenValue(inventory[1]))
  /\ [][\A v \in 9..MaxValue :
          Occurrences(tokenStore', inventory', v)
            > Occurrences(tokenStore, inventory, v)
          => /\ lastEvent'.op = "click"
             /\ inventory # Null /\ 2 * inventory[1] = v
             /\ getEffectiveValue(Cur, lastEvent'.row, lastEvent'.col)
                  = inventory[1]
             /\ inRange(Cur, lastEvent'.row, lastEvent'.col)]_vars

(* two tokens of 8 were merged: the hand holds 16 *)
MergedAboveEight ==
  /\ lastEvent.op = "click"
  /\ inventory = Holding(2 * 8)
  /\ getEffectiveValue(Cur, lastEvent.row, lastEvent.col) = 0

-----------------------------------------------------------------------------
(* The sparse override store *)

Minimal(tokens) ==
  \A key \in DOMAIN tokens :
    tokens[key] # baseTokenValue(parseInt(key[1]), parseInt(key[2]))

(* C6: from the empty store and from every snapshot saveState wrote, after *)
(* any clicks, position updates, syncs and mode switches, no entry of      *)
(* tokenStore equals baseTokenValue of its cell, and writing a cell's      *)
(* baseline with setEffectiveValue leaves no override for that cell.       *)
OverrideMinimality ==
  /\ Minimal(tokenStore)
  /\ localStorage # <<>> => Minimal(TokensIn(SnapshotOf(localStorage[1])))
  /\ \A rc \in ViewCells :
       cellKeyFromRC(rc[1], rc[2]) \notin
         DOMAIN setEffectiveValue(Cur, rc[1], rc[2],
                                  baseTokenValue(rc[1], rc[2])).tokenStore

(* a snapshot with overrides was written, and the last click put a token   *)
(* back on a picked cell whose baseline it is: the override is gone        *)
PutBackBaseline ==
  /\ lastEvent.op = "click"
  /\ inventory = Null
  /\ lastMemento # Null
  /\ HeldIn(lastMemento[1])
       = Holding(baseTokenValue(lastEvent.row, lastEvent.col))
  /\ cellKeyFromRC(lastEvent.row, lastEvent.col) \notin DOMAIN tokenStore
  /\ localStorage # <<>>
  /\ DOMAIN TokensIn(SnapshotOf(localStorage[1])) # {}

-----------------------------------------------------------------------------
(* Persistence.  Play near the origin under a resting viewport, with the   *)
(* save timer and reloads of the page.                                     *)

NextPersist ==
  \/ SessionClick
  \/ GeoPositionIn(NearFixes)
  \/ SaveTimerFire
  \/ Reload

SpecPersist == Init /\ [][NextPersist]_vars

(* the Memento m with its token entries listed in the order p *)
Reordered(m, p) ==
  LET items == m.fields.tokens.items
  IN  JObj([m.fields EXCEPT
              !.tokens = JArr([i \in DOMAIN items |-> items[p[i]]])])

(* C11: in every state whose payload is within the size cap, what          *)
(* saveState writes is read back by loadState, and restoreFromMemento      *)
(* makes of it, whatever the order of its token entries, the inventory,    *)
(* the playerCell and the overrides of that state.                         *)
RoundTrip ==
  LET storage == saveState(Cur, <<>>)
      loaded  == loadState(storage)
  IN  storage # <<>> =>
        /\ loaded # Null
        /\ \A p \in Permutations(DOMAIN loaded[1].fields.tokens.items) :
             LET g == restoreFromMemento(Defaults, Reordered(loaded[1], p))
             IN  /\ ~g.uncaught
                 /\ g.inventory = inventory
                 /\ g.playerCell = playerCell
                 /\ g.tokenStore = tokenStore

(* the page was reloaded away from the origin on a text saveState wrote,   *)
(* and holds the two overrides and the token in hand of that text          *)
Reloaded ==
  /\ lastEvent.op = "initMap"
  /\ localStorage # <<>>
  /\ Cardinality(DOMAIN tokenStore) >= 2
  /\ tokenStore = TokensIn(SnapshotOf(localStorage[1]))
  /\ inventory # Null
  /\ inventory = HeldIn(SnapshotOf(localStorage[1]))
  /\ playerCell # latLngToCell(CLASSROOM.lat, CLASSROOM.lng)
  /\ playerCell.col = SnapshotOf(localStorage[1]).fields.playerCell.fields.col.n

-----------------------------------------------------------------------------
(* New game.  Play with the save timer, the "New game" button and reloads  *)
(* of the page.                                                            *)

NextReset ==
  \/ SessionClick
  \/ GeoPositionIn(NearFixes)
  \/ SaveTimerFire
  \/ NewGame
  \/ Reload

SpecReset == Init /\ [][NextReset]_vars

(* the text holds no override and no inventory *)
BlankText(text) ==
  /\ DOMAIN TokensIn(SnapshotOf(text)) = {}
  /\ HeldIn(SnapshotOf(text)) = Null

(* C26: a confirmed "New game" removes the stored text and leaves the      *)
(* override store empty, the inventory empty and playerCell the origin     *)
(* cell; every write to the storage persists the overrides and the         *)
(* inventory as they are in memory at the write, so that a write that      *)
(* follows the reset holds none of before it; a declined "New game"        *)
(* changes neither the stored text nor the state in memory.                *)
NewGameResets ==
  [][/\ lastEvent'.op = "newGame"
          => /\ localStorage' = <<>>
             /\ DOMAIN tokenStore' = {}
             /\ inventory' = Null
             /\ playerCell' = latLngToCell(CLASSROOM.lat, CLASSROOM.lng)
     /\ localStorage' # localStorage /\ localStorage' # <<>>
          => /\ TokensIn(SnapshotOf(localStorage'[1])) = tokenStore'
             /\ HeldIn(SnapshotOf(localStorage'[1])) = inventory'
     /\ lastEvent.op = "newGame" /\ localStorage' # <<>>
          => BlankText(localStorage'[1])
     /\ lastEvent'.op = "newGameDeclined"
          => UNCHANGED <<localStorage, tokenStore, inventory, playerCell,
                         currentMovementMode, lastMemento, saveTimer,
                         visibleCells, mapBounds>>
    ]_vars

(* the save that was pending at the reset has run: the text it wrote holds *)
(* no override and no inventory, while a view still shows the cell as it   *)
(* was before the reset                                                    *)
SavedAfterReset ==
  /\ lastEvent.op = "save"
  /\ localStorage # <<>>
  /\ BlankText(localStorage[1])
  /\ \E kk \in DOMAIN visibleCells :
       visibleCells[kk].val
         # getEffectiveValue(Cur, visibleCells[kk].row, visibleCells[kk].col)

-----------------------------------------------------------------------------
(* Startup.  The page opens on whatever text the store holds: nothing, a   *)
(* text that does not parse, null, envelopes that fail a check of          *)
(* loadState, a well-formed envelope, and envelopes that pass the checks   *)
(* with a token entry that is null or has no state.  (Entries and cells    *)
(* whose fields have the wrong type without raising are not followed.)     *)

StoredEntry == JArr(<<JKey(cellKeyFromRC(0, 1)), JObj([v |-> JNum(16)])>>)

StoredSnapshot(tokens) ==
  [tokens       |-> JArr(tokens),
   inventory    |-> JObj([value |-> JNum(2)]),
   playerCell   |-> JObj([row |-> JNum(0), col |-> JNum(1)]),
   movementMode |-> JStr("buttons"),
   target       |-> JNum(TARGET)]

Envelope(version, snapshot) ==
  JSON_stringify(JObj([version |-> JNum(version), snapshot |-> JObj(snapshot)]))

WellFormedText == Envelope(STORAGE_VERSION, StoredSnapshot(<<StoredEntry>>))

InvalidTexts ==
  { Unparseable,
    JSON_stringify(JNull),
    Envelope(STORAGE_VERSION - 1, StoredSnapshot(<<StoredEntry>>)),
    JSON_stringify(JObj([version |-> JNum(STORAGE_VERSION)])),
    Envelope(STORAGE_VERSION,
             [StoredSnapshot(<<>>) EXCEPT !.tokens = JObj(<<>>)]),
    Envelope(STORAGE_VERSION,
             [f \in {"tokens", "inventory"} |->
                StoredSnapshot(<<StoredEntry>>)[f]]) }

MalformedTexts ==
  { Envelope(STORAGE_VERSION, StoredSnapshot(<<StoredEntry, JNull>>)),
    Envelope(STORAGE_VERSION,
             StoredSnapshot(<<JArr(<<JKey(cellKeyFromRC(0, 1))>>)>>)) }

InitStartup(texts) ==
  \E storage \in {<<>>} \cup { <<text>> : text \in texts } :
    InitOn(storage, {MERGE_RESULT_IN_HAND})

(* after an uncaught exception of initMap no listener is registered: the   *)
(* page can only be loaded again                                           *)
NextStartup ==
  \/ ~uncaught /\ SessionClick
  \/ ~uncaught /\ ToggleMode
  \/ ~uncaught /\ SaveTimerFire
  \/ Reload

SpecStartup ==
  InitStartup({WellFormedText} \cup InvalidTexts) /\ [][NextStartup]_vars

SpecStartupAny ==
  InitStartup({WellFormedText} \cup InvalidTexts \cup MalformedTexts)
    /\ [][NextStartup]_vars

(* the cases of a stored text that loadState is to reject *)
Parsed(storage) == storage # <<>> /\ storage[1].parses

IsEnvelope(storage) == Parsed(storage) /\ storage[1].value.kind = "object"

HasSnapshot(storage) ==
  /\ IsEnvelope(storage)
  /\ "snapshot" \in DOMAIN storage[1].value.fields
  /\ storage[1].value.fields.snapshot.kind = "object"

Absent(storage) == storage = <<>>

NotParseable(storage) == storage # <<>> /\ ~storage[1].parses

WrongVersion(storage) ==
  /\ IsEnvelope(storage)
  /\ \/ "version" \notin DOMAIN storage[1].value.fields
     \/ storage[1].value.fields.version # JNum(STORAGE_VERSION)

NoSnapshot(storage) ==
  IsEnvelope(storage) /\ "snapshot" \notin DOMAIN storage[1].value.fields

TokensNotList(storage) ==
  /\ HasSnapshot(storage)
  /\ \/ "tokens" \notin DOMAIN SnapshotOf(storage[1]).fields
     \/ SnapshotOf(storage[1]).fields.tokens.kind # "array"

NoPlayerCell(storage) ==
  /\ HasSnapshot(storage)
  /\ "playerCell" \notin DOMAIN SnapshotOf(storage[1]).fields

Rejected(storage) ==
  \/ Absent(storage)
  \/ NotParseable(storage)
  \/ WrongVersion(storage)
  \/ NoSnapshot(storage)
  \/ TokensNotList(storage)
  \/ NoPlayerCell(storage)

(* C12: loadState returns null when the stored value is absent, does not   *)
(* parse, has another version than STORAGE_VERSION, has no snapshot, has   *)
(* tokens that are not a list or has no playerCell; a startup on such a    *)
(* value leaves the override store empty, the inventory empty, playerCell  *)
(* at the origin cell and the movement mode at its default.                *)
LoadValidation ==
  Rejected(localStorage) =>
    /\ loadState(localStorage) = Null
    /\ lastEvent.op = "initMap" =>
         /\ ~uncaught
         /\ tokenStore = <<>>
         /\ inventory = Null
         /\ playerCell = latLngToCell(CLASSROOM.lat, CLASSROOM.lng)
         /\ currentMovementMode = (IF USE_GEOLOCATION THEN "geo" ELSE "buttons")

(* the page has started on an envelope of another version whose snapshot   *)
(* holds an override, a token in hand and another cell and mode            *)
StartedOnOldVersion ==
  /\ lastEvent.op = "initMap"
  /\ WrongVersion(localStorage)
  /\ HasSnapshot(localStorage)
  /\ DOMAIN TokensIn(SnapshotOf(localStorage[1])) # {}
  /\ HeldIn(SnapshotOf(localStorage[1])) # Null
  /\ tokenStore = <<>>

(* C13: whatever the store holds, startup completes without raising, and   *)
(* ends with the default state or with the whole stored snapshot restored. *)
StartupNeverFatal ==
  lastEvent.op = "initMap" =>
    /\ ~uncaught
    /\ \/ tokenStore = <<>> /\ inventory = Null
       \/ /\ HasSnapshot(localStorage)
          /\ tokenStore = TokensIn(SnapshotOf(localStorage[1]))
          /\ inventory = HeldIn(SnapshotOf(localStorage[1]))

-----------------------------------------------------------------------------
(* The trailing save.  A callback handed to setTimeout runs once its delay *)
(* has passed, whatever else happens on the page: the save timer is fair.  *)
(* Reloads, which drop a pending timer, are left out.                      *)

NextTrailing ==
  \/ SessionClick
  \/ GeoPositionIn(NearFixes)
  \/ ToggleMode
  \/ SaveTimerFire

(* the step of the timer's callback: the only one of NextTrailing that    *)
(* clears saveTimer                                                        *)
SaveTimerCallback == saveTimer /\ saveTimer' = FALSE

SpecTrailing ==
  Init /\ [][NextTrailing]_vars /\ WF_saveTimer(SaveTimerCallback)

(* the stored text holds the state of the session as it is now *)
Saved ==
  /\ HasSnapshot(localStorage)
  /\ localStorage[1].value.fields.version.n = STORAGE_VERSION
  /\ TokensIn(SnapshotOf(localStorage[1])) = tokenStore
  /\ HeldIn(SnapshotOf(localStorage[1])) = inventory
  /\ SnapshotOf(localStorage[1]).fields.playerCell.fields.row.n
       = playerCell.row
  /\ SnapshotOf(localStorage[1]).fields.playerCell.fields.col.n
       = playerCell.col
  /\ SnapshotOf(localStorage[1]).fields.movementMode.s = currentMovementMode

(* C14: whenever the stored text differs from the state of the session (an *)
(* event changed the override store, the inventory, playerCell or the      *)
(* movement mode), a write eventually happens after which the stored       *)
(* snapshot equals the state in memory.                                    *)
TrailingSave == ~Saved ~> Saved

(* a write has stored overrides, a token in hand and the button mode *)
SavedAfterChanges ==
  /\ lastEvent.op = "save"
  /\ Saved
  /\ tokenStore # <<>>
  /\ inventory # Null
  /\ playerCell # latLngToCell(CLASSROOM.lat, CLASSROOM.lng)
  /\ currentMovementMode = "buttons"

-----------------------------------------------------------------------------
(* The save timer on the clock.  Time passes in ticks of 125 ms; the       *)
(* callback of the timer runs when the timer is SAVE_DELAY ticks old, and  *)
(* time does not pass a timer that is due.                                 *)

Tick ==
  /\ ~(saveTimer /\ saveAge >= SAVE_DELAY)
  /\ saveAge' = IF saveTimer THEN saveAge + 1 ELSE saveAge
  /\ sinceTrigger' = Min(sinceTrigger + 1, SAVE_DELAY)
  /\ lastEvent' = Event("tick", 0, 0)
  /\ alerts' = 0
  /\ positions' = 0
  /\ UNCHANGED <<fixed, tokenStore, inventory, playerCell,
                 currentMovementMode, lastMemento, saveTimer, visibleCells,
                 mapBounds, redrawTimer, redraws, buttonCell, watchId, feed,
                 geoAvailable, localStorage, uncaught>>

SaveTimerDue == SaveTimerFireAfter(SAVE_DELAY)

NextTimed ==
  \/ SessionClick
  \/ Tick
  \/ SaveTimerDue

SpecTimed == Init /\ [][NextTimed]_vars

(* C15: the triggers that arrive while a save timer is pending cause one   *)
(* write; the write happens only after a quiet period of SAVE_DELAY        *)
(* following the last of them, and it stores the state as it is at the     *)
(* write.                                                                  *)
SaveCoalescing ==
  [][saveTimer /\ ~saveTimer' =>
       /\ sinceTrigger >= SAVE_DELAY
       /\ Saved'
       /\ inventory' = inventory /\ tokenStore' = tokenStore]_vars

-----------------------------------------------------------------------------
(* Switching the movement source.  The browser calls the callbacks of a    *)
(* watch for as long as the watch is open (watches counts the open ones),  *)
(* whatever the page has done since.                                       *)

NextSwap ==
  \/ ToggleMode
  \/ GeoPositionIn(NearFixes)
  \/ GeoError
  \/ StepBy
  \/ SessionClick

SpecSwap == Init /\ [][NextSwap]_vars

(* C17: at no time is more than one watch open; while the button source   *)
(* is the active one no watch is open, and no callback of the live feed    *)
(* runs (and moves playerCell) until the live source is started again.     *)
HotSwapCancellation ==
  /\ [](watches <= 1)
  /\ [](currentMovementMode = "buttons" => watches = 0 /\ ~watchId)
  /\ [][lastEvent'.op \in {"geoPosition", "geoError"}
          => currentMovementMode = "geo" /\ currentMovementMode' = "geo"]_vars

(* the live feed has moved the player, and the toggle has then switched to *)
(* the buttons                                                             *)
SwitchedFromLiveFeed ==
  /\ lastEvent.op = "toggleMode"
  /\ currentMovementMode = "buttons"
  /\ geoAvailable
  /\ watches = 0
  /\ playerCell # latLngToCell(CLASSROOM.lat, CLASSROOM.lng)
  /\ buttonCell = playerCell

-----------------------------------------------------------------------------
(* Switching the source while the viewport moves: the toggle can be        *)
(* clicked between a move of the viewport and the resync that follows it.  *)

NextSwitch ==
  \/ SessionClick
  \/ MapMove
  \/ MapMoveEnd
  \/ RedrawTimerFire
  \/ ToggleMode
  \/ GeoPositionIn(NearFixes)

SpecSwitch == Init /\ [][NextSwitch]_vars

(* a step of the toggle, or of a position the live source emits *)
SwitchStep ==
  lastEvent'.op \in {"toggleMode", "geoPosition"}

-----------------------------------------------------------------------------
(* The fallback positions of the live source.  An open watch can report    *)
(* errors again and again (each acquisition that times out reports one);   *)
(* fallbacks counts the fallback positions emitted since the last start(). *)

NextFeed ==
  \/ GeoErrorCounted
  \/ GeoPositionIn(NearFixes)
  \/ ToggleMode
  \/ SessionClick

SpecFeed == Init /\ [][NextFeed]_vars

(* C19: a start() of the live source whose feed is unavailable or reports  *)
(* errors emits exactly one fallback position, however many errors the     *)
(* feed reports before stop().                                             *)
SingleFallback ==
  /\ fallbacks <= 1
  /\ currentMovementMode = "geo" /\ ~geoAvailable => fallbacks = 1
  /\ lastEvent.op = "geoError" => fallbacks = 1

-----------------------------------------------------------------------------
(* The D-pad.  The button source steps over the cells around the origin,   *)
(* south and west of it included.                                          *)

PadBox ==
  { [row |-> r, col |-> c] : r \in -1..1, c \in -1..(MaxCol - 1) }

PadStep == StepWithin(PadBox)

NextPad ==
  \/ ToggleMode
  \/ PadStep
  \/ SessionClick

SpecPad == Init /\ [][NextPad]_vars

(* C20: stepBy(dx, dy) on the button source at cell (r, c) makes its cell  *)
(* (r + dy, c + dx); the position it emits converts back to that cell, so  *)
(* playerCell is the source's cell afterwards; stepBy(1, 0) raises the     *)
(* column by exactly 1 and leaves the row unchanged.                       *)
ManualStep ==
  [][lastEvent'.op = "stepBy" =>
       /\ buttonCell' = [row |-> buttonCell.row + lastEvent'.row,
                         col |-> buttonCell.col + lastEvent'.col]
       /\ playerCell' = buttonCell'
       /\ lastEvent'.col = 1 /\ lastEvent'.row = 0 =>
            /\ playerCell'.col = playerCell.col + 1
            /\ playerCell'.row = playerCell.row]_vars

(* a step east in the row south of the origin, from the column west of it *)
SteppedEast ==
  /\ lastEvent = Event("stepBy", 0, 1)
  /\ buttonCell = [row |-> -1, col |-> 0]
  /\ playerCell = buttonCell

-----------------------------------------------------------------------------
(* Starting the button source: at the end of initMap when the stored mode  *)
(* is "buttons", and in useMovement when the toggle switches to it.        *)

NextStart ==
  \/ ToggleMode
  \/ GeoPositionIn(NearFixes)
  \/ StepBy
  \/ SaveTimerFire
  \/ Reload

SpecStart == Init /\ [][NextStart]_vars

StoredCell(text) ==
  [row |-> SnapshotOf(text).fields.playerCell.fields.row.n,
   col |-> SnapshotOf(text).fields.playerCell.fields.col.n]

(* C21: a start() of the button source hands the game exactly one         *)
(* position, and after it playerCell is the cell the source holds: at a    *)
(* switch the playerCell that setCell was given, at startup the playerCell *)
(* restored from the stored text.                                          *)
ManualStartEmitsOnce ==
  [][/\ lastEvent'.op = "toggleMode" /\ currentMovementMode' = "buttons"
          => /\ positions' = 1
             /\ buttonCell' = playerCell
             /\ playerCell' = buttonCell'
     /\ lastEvent'.op = "initMap" /\ currentMovementMode' = "buttons"
          => /\ positions' = 1
             /\ playerCell' = buttonCell'
             /\ localStorage # <<>> /\ playerCell' = StoredCell(localStorage[1])
    ]_vars

(* the page was reloaded on a text with the buttons as the source and the  *)
(* player away from the origin                                             *)
StartedOnButtons ==
  /\ lastEvent.op = "initMap"
  /\ currentMovementMode = "buttons"
  /\ positions = 1
  /\ playerCell # latLngToCell(CLASSROOM.lat, CLASSROOM.lng)
  /\ buttonCell = playerCell

-----------------------------------------------------------------------------
(* The size cap.  A payload over the 200,000 characters of saveState     *)
(* holds some eleven thousand overrides.  SpecTight follows a session from *)
(* a fresh page with TightCap in the place of the 200,000: the payload of  *)
(* a fresh page and the payload of one pick-up fit under it, a payload of  *)
(* two overrides does not.                                                 *)

TightCap == 150

TightSave == SaveTimerRun(0, TightCap)

NextTight ==
  \/ SessionClick
  \/ TightSave

SpecTight == Init /\ [][NextTight]_vars

Oversize == jsonLength(payloadOf(Cur)) > TightCap

(* C16: a run of saveState on a payload over the cap does not raise,       *)
(* leaves the stored text as it was, and leaves the override store, the    *)
(* inventory and playerCell unchanged; the timer is cleared as after a     *)
(* write, so the next event schedules its save as before.                  *)
OversizeSaveSkipped ==
  [][lastEvent'.op = "save" /\ Oversize =>
       /\ localStorage' = localStorage
       /\ tokenStore' = tokenStore
       /\ inventory' = inventory
       /\ playerCell' = playerCell
       /\ ~uncaught'
       /\ ~saveTimer']_vars

(* a save has been skipped: the stored text is still the one an earlier    *)
(* save of this session wrote, with one override and the token in hand     *)
SkippedSave ==
  /\ lastEvent.op = "save"
  /\ Oversize
  /\ localStorage # <<>>
  /\ HeldIn(SnapshotOf(localStorage[1])) # Null
  /\ Cardinality(DOMAIN TokensIn(SnapshotOf(localStorage[1]))) = 1
  /\ Cardinality(DOMAIN tokenStore) >= 2

(* The cap itself.  An earlier session, played with the map zoomed out     *)
(* under the first luck function, has left a text of FarEntries overrides: *)
(* cells of the rows from FarFirst on, FarCols to a row, emptied where the *)
(* baseline has a token and given a 2 where it has none, with the player   *)
(* FarStep columns east of the classroom and the buttons as the source.    *)
(* The text is 4 characters under the 200,000, and a pick-up adds 23.  The *)
(* window of the session does not reach the far cells, which have no view  *)
(* and are never evicted.  The page is opened on no text or on this one.   *)

FarFirst == 10
FarCols == 100
FarEntries == 10936
FarStep == 5

FarCell(i) ==
  [row |-> FarFirst + ((i - 1) \div FarCols),
   col |-> FarFirst + ((i - 1) % FarCols)]

FarValue(i) ==
  IF baseTokenValue(FarCell(i).row, FarCell(i).col) = 0 THEN 2 ELSE 0

FarSnapshot ==
  JObj([tokens       |-> JArr([i \in 1..FarEntries |->
                          JArr(<<JKey(cellKeyFromRC(FarCell(i).row,
                                                    FarCell(i).col)),
                                 JObj([v |-> JNum(FarValue(i))])>>)]),
        inventory    |-> JNull,
        playerCell   |-> JObj([row |-> JNum(0), col |-> JNum(FarStep)]),
        movementMode |-> JStr("buttons"),
        target       |-> JNum(TARGET)])

FarText ==
  JSON_stringify(JObj([version  |-> JNum(STORAGE_VERSION),
                       snapshot |-> FarSnapshot]))

(* the module's variables as their declarations leave them, before the     *)
(* call of initMap, in a browser without geolocation                       *)
InitStored ==
  /\ revision = "persistence"
  /\ mergeResultInHand = MERGE_RESULT_IN_HAND
  /\ luckSeed \in 1..NumSeeds
  /\ geoAvailable = FALSE
  /\ localStorage \in IF luckSeed = 1 THEN {<<>>, <<FarText>>} ELSE {<<>>}
  /\ redrawTimer = FALSE
  /\ redraws = 0
  /\ Started([g |-> Defaults, s |-> NoSources])
  /\ lastEvent = Event("open", 0, 0)

(* the call of initMap that ends the module *)
PageLoad == lastEvent.op = "open" /\ Reload

(* a click that picks a token up or puts the held one down *)
PlainClick == ClickUpTo(0)

NextOversize ==
  \/ PageLoad
  \/ PlainClick
  \/ SaveTimerFire

SpecOversize == InitStored /\ [][NextOversize]_vars

(* under SpecOversize: the same of a save at the 200,000 characters, which *)
(* the pick-up next to the player passes                                   *)
SkippedAtTheCap ==
  [][/\ lastEvent'.op = "save"
     /\ jsonLength(payloadOf(Cur)) > SIZE_CAP
     => /\ localStorage' = localStorage
        /\ tokenStore' = tokenStore
        /\ inventory' = inventory
        /\ playerCell' = playerCell
        /\ ~uncaught'
        /\ ~saveTimer']_vars

(* under SpecOversize: the text fits and is written back after a put-down; *)
(* with the token in hand it does not fit                                  *)
AtTheCap ==
  /\ lastEvent.op = "initMap" /\ localStorage # <<>>
       => jsonLength(payloadOf(Cur)) = SIZE_CAP - 4
  /\ localStorage # <<>> /\ Cardinality(DOMAIN tokenStore) > FarEntries
       => jsonLength(payloadOf(Cur)) = SIZE_CAP + 19

-----------------------------------------------------------------------------
(* The movePlayer revision (src/unnamed/part_001 lines 1887-2605): no       *)
(* persistence, the window is a square around playerCell.  Its window       *)
(* bounds are playerCell -+ RENDER_RADIUS / 4, so a cell coordinate of this  *)
(* revision is a multiple of a quarter: it is kept as its number of          *)
(* quarters, and such a number is its own numeral.  Whole(n) is the          *)
(* integer n.                                                                *)

Whole(n) == n * QUARTERS

TARGET_mp == 16
RENDER_RADIUS == INTERACT_RANGE + 6

keyOf_mp(row, col) == <<row, col>>

k(row, col) == <<row, col>>

inRange_mp(g, row, col) ==
  LET dr == Abs(row - g.playerCell.row)
      dc == Abs(col - g.playerCell.col)
  IN  Max(dr, dc) <= Whole(INTERACT_RANGE)

baseTokenValue_mp(row, col) ==
  LET r == luck(<<row, col>>)
  IN  IF r < 14 THEN 2
      ELSE IF r < 20 THEN 4
      ELSE IF r < 22 THEN 8
      ELSE 0

getEffectiveValue_mp(g, row, col) ==
  IF k(row, col) \in DOMAIN g.tokenStore THEN g.tokenStore[k(row, col)]
  ELSE baseTokenValue_mp(row, col)

(* overrides.set(k(row, col), value); saveMemento() has an empty body *)
setEffectiveValue_mp(g, row, col, value) ==
  LET old == g.tokenStore
  IN  [g EXCEPT !.tokenStore =
         [kk \in DOMAIN old \cup {k(row, col)} |->
            IF kk = k(row, col) THEN value ELSE old[kk]]]

checkWin_mp(g) ==
  IF g.inventory # Null /\ g.inventory[1] >= TARGET_mp
  THEN [g EXCEPT !.alerts = @ + 1]
  ELSE g

playerVisibleCellRange_mp(g) ==
  [minRow |-> g.playerCell.row - Whole(RENDER_RADIUS) \div 4,
   maxRow |-> g.playerCell.row + Whole(RENDER_RADIUS) \div 4,
   minCol |-> g.playerCell.col - Whole(RENDER_RADIUS) \div 4,
   maxCol |-> g.playerCell.col + Whole(RENDER_RADIUS) \div 4]

(* the (row, col) the loops visit: from min, by one, while <= max *)
WindowCells_mp(rng) ==
  { rc \in (rng.minRow..rng.maxRow) \X (rng.minCol..rng.maxCol) :
      /\ (rc[1] - rng.minRow) % Whole(1) = 0
      /\ (rc[2] - rng.minCol) % Whole(1) = 0 }

CellVisual_mp(g, row, col) ==
  [row |-> row, col |-> col,
   val |-> getEffectiveValue_mp(g, row, col),
   rangeOK |-> inRange_mp(g, row, col)]

syncGridToPlayerWindow_mp(g) ==
  LET rng   == playerVisibleCellRange_mp(g)
      keys  == { keyOf_mp(rc[1], rc[2]) : rc \in WindowCells_mp(rng) }
      stale == DOMAIN g.visibleCells \ keys
      shown == [kk \in keys |-> CellVisual_mp(g, kk[1], kk[2])]
      drop  == { k(Whole(parseInt(kk[1])), Whole(parseInt(kk[2]))) :
                   kk \in stale }
      kept  == IF MEMORYLESS
               THEN Restrict(g.tokenStore, DOMAIN g.tokenStore \ drop)
               ELSE g.tokenStore
  IN  [g EXCEPT !.visibleCells = shown, !.tokenStore = kept]

refreshVisibleCells_mp(g) ==
  [g EXCEPT !.visibleCells =
     [kk \in DOMAIN g.visibleCells |->
        LET r == Whole(parseInt(kk[1]))
            c == Whole(parseInt(kk[2]))
        IN  [g.visibleCells[kk] EXCEPT
               !.val = getEffectiveValue_mp(g, r, c),
               !.rangeOK = inRange_mp(g, r, c)]]]

updateCell_mp(g, row, col) ==
  LET kk == keyOf_mp(row, col)
  IN  IF kk \notin DOMAIN g.visibleCells THEN g
      ELSE [g EXCEPT !.visibleCells[kk] = CellVisual_mp(g, row, col)]

handleCellClick_mp(g, row, col) ==
  IF ~inRange_mp(g, row, col) THEN g
  ELSE
    LET cellVal == getEffectiveValue_mp(g, row, col)
    IN  IF g.inventory = Null
        THEN IF cellVal > 0
             THEN LET g1 == [g EXCEPT !.inventory = Holding(cellVal)]
                      g2 == setEffectiveValue_mp(g1, row, col, 0)
                  IN  checkWin_mp(updateCell_mp(g2, row, col))
             ELSE g
        ELSE
          LET held == g.inventory[1]
          IN  IF cellVal = held /\ held > 0
              THEN LET newVal == held * 2
                       g2 == IF mergeResultInHand
                             THEN [setEffectiveValue_mp(g, row, col, 0)
                                     EXCEPT !.inventory = Holding(newVal)]
                             ELSE [setEffectiveValue_mp(g, row, col, newVal)
                                     EXCEPT !.inventory = Null]
                   IN  checkWin_mp(updateCell_mp(g2, row, col))
              ELSE IF cellVal = 0
              THEN LET g2 == [setEffectiveValue_mp(g, row, col, held)
                                EXCEPT !.inventory = Null]
                   IN  updateCell_mp(g2, row, col)
              ELSE g

movePlayer(g, dx, dy) ==
  LET g1 == [g EXCEPT !.playerCell = [row |-> g.playerCell.row + Whole(dy),
                                      col |-> g.playerCell.col + Whole(dx)]]
  IN  refreshVisibleCells_mp(syncGridToPlayerWindow_mp(g1))

(* initMap: two initial syncs, then checkWin; nothing is loaded *)
initMap_mp ==
  checkWin_mp(syncGridToPlayerWindow_mp(syncGridToPlayerWindow_mp(
    [Defaults EXCEPT !.currentMovementMode = "buttons"])))

Init_mp ==
  /\ revision = "movePlayer"
  /\ mergeResultInHand = TRUE
  /\ luckSeed \in 1..NumSeeds
  /\ geoAvailable = TRUE
  /\ localStorage = <<>>
  /\ redrawTimer = FALSE
  /\ redraws = 0
  /\ tokenStore = initMap_mp.tokenStore
  /\ inventory = initMap_mp.inventory
  /\ playerCell = initMap_mp.playerCell
  /\ currentMovementMode = initMap_mp.currentMovementMode
  /\ lastMemento = initMap_mp.lastMemento
  /\ saveTimer = initMap_mp.saveTimer
  /\ visibleCells = initMap_mp.visibleCells
  /\ mapBounds = initMap_mp.mapBounds
  /\ alerts = initMap_mp.alerts
  /\ positions = 0
  /\ buttonCell = initMap_mp.playerCell
  /\ watchId = FALSE
  /\ uncaught = FALSE
  /\ saveAge = 0
  /\ sinceTrigger = SAVE_DELAY
  /\ watches = 0
  /\ fallbacks = 0
  /\ lastEvent = Event("initMap", 0, 0)

(* a click on the rectangle of a live CellView just south-west of the      *)
(* player                                                                  *)
Click_mp ==
  \E kk \in DOMAIN visibleCells :
    LET row == visibleCells[kk].row
        col == visibleCells[kk].col
    IN  /\ row < playerCell.row /\ playerCell.row - row < Whole(1)
        /\ col < playerCell.col
        /\ inventory # Null /\ getEffectiveValue_mp(Cur, row, col) = inventory[1]
             => 2 * inventory[1] <= MaxValue
        /\ Commit(handleCellClick_mp(Cur, row, col))
        /\ lastEvent' = Event("click", row, col)
        /\ UNCHANGED <<fixed, redrawTimer, redraws, buttonCell, watchId, feed,
                       geoAvailable, localStorage>>

(* a D-pad button *)
MovePlayer ==
  \E d \in Steps :
    /\ [row |-> playerCell.row \div Whole(1) + d[2],
        col |-> playerCell.col \div Whole(1) + d[1]] \in PlayerBox
    /\ Commit(movePlayer(Cur, d[1], d[2]))
    /\ lastEvent' = Event("movePlayer", 0, 0)
    /\ UNCHANGED <<fixed, redrawTimer, redraws, buttonCell, watchId, feed,
                   geoAvailable, localStorage>>

(* the map's "moveend" event: both registered handlers run a sync *)
MapMoveEnd_mp ==
  /\ Commit(syncGridToPlayerWindow_mp(syncGridToPlayerWindow_mp(Cur)))
  /\ lastEvent' = Event("moveend", 0, 0)
  /\ UNCHANGED <<fixed, redrawTimer, redraws, buttonCell, watchId, feed,
                 geoAvailable, localStorage>>

Next_mp ==
  \/ Click_mp
  \/ MovePlayer
  \/ MapMoveEnd_mp

SpecMovePlayer == Init_mp /\ [][Next_mp]_vars

-----------------------------------------------------------------------------
(* Memoryless eviction *)

(* the baseline of the cell a key names *)
Baseline(key) ==
  LET r == luck(key)
  IN  IF r < 14 THEN 2 ELSE IF r < 20 THEN 4 ELSE IF r < 22 THEN 8 ELSE 0

(* C7: with MEMORYLESS, when a cell with an override leaves the window at  *)
(* a sync its override is removed, and a cell that enters the window has   *)
(* no override: its effective value is the baseline.                       *)
MemorylessEviction ==
  [][/\ \A key \in DOMAIN visibleCells \cap DOMAIN tokenStore :
          key \notin DOMAIN visibleCells' => key \notin DOMAIN tokenStore'
     /\ \A key \in DOMAIN visibleCells' \ DOMAIN visibleCells :
          key \in DOMAIN tokenStore' => tokenStore'[key] = Baseline(key)]_vars

(* The player-centred window *)

(* a coordinate that is an integer *)
IsWhole(q) == q % QUARTERS = 0

(* C24: after every sync the CellViews are exactly the cells (r, c) of     *)
(* integers with |r - playerCell.row| <= R and |c - playerCell.col| <= R,  *)
(* R the RENDER_RADIUS / 4 of playerVisibleCellRange, and every key of a   *)
(* CellView and of the token store is a pair of integers.                  *)
PlayerCentredWindow ==
  LET R     == Whole(RENDER_RADIUS) \div 4
      cells == { rc \in ((playerCell.row - R)..(playerCell.row + R)) \X
                        ((playerCell.col - R)..(playerCell.col + R)) :
                   IsWhole(rc[1]) /\ IsWhole(rc[2]) }
  IN  /\ DOMAIN visibleCells = { keyOf_mp(rc[1], rc[2]) : rc \in cells }
      /\ \A kk \in DOMAIN visibleCells \cup DOMAIN tokenStore :
           IsWhole(kk[1]) /\ IsWhole(kk[2])

-----------------------------------------------------------------------------
(* The revision of src/src/main.ts: the player stays at originCell, every  *)
(* cell of the viewport is drawn, a merge writes its result into the cell, *)
(* nothing is evicted and every write is saved at once.  A handler works   *)
(* on the record Cur_main.                                                 *)

TARGET_main == 16

originCell == latLngToCell(CLASSROOM.lat, CLASSROOM.lng)

inRange_main(row, col) ==
  LET dr == Abs(row - originCell.row)
      dc == Abs(col - originCell.col)
  IN  Max(dr, dc) <= INTERACT_RANGE

baseTokenValue_main(row, col) ==
  LET r == luck(<<numeral(row), numeral(col)>>)
  IN  IF r < 14 THEN 2
      ELSE IF r < 20 THEN 4
      ELSE IF r < 22 THEN 8
      ELSE 0

k_main(row, col) == <<numeral(row), numeral(col)>>

getEffectiveValue_main(g, row, col) ==
  IF k_main(row, col) \in DOMAIN g.overrides
  THEN g.overrides[k_main(row, col)]
  ELSE baseTokenValue_main(row, col)

saveMemento_main(g) ==
  [g EXCEPT !.storage =
     <<[overrides |-> g.overrides, inventory |-> g.inventory]>>]

setEffectiveValue_main(g, row, col, value) ==
  LET old == g.overrides
  IN  saveMemento_main([g EXCEPT !.overrides =
        [kk \in DOMAIN old \cup {k_main(row, col)} |->
           IF kk = k_main(row, col) THEN value ELSE old[kk]]])

loadMemento_main(g) ==
  IF g.storage = <<>> THEN g
  ELSE [g EXCEPT !.overrides = g.storage[1].overrides,
                 !.inventory = g.storage[1].inventory]

drawGridCells(g) ==
  LET sw == latLngToCell(g.mapBounds.sw.lat, g.mapBounds.sw.lng)
      ne == latLngToCell(g.mapBounds.ne.lat, g.mapBounds.ne.lng)
  IN  [g EXCEPT !.drawn =
         [kk \in { k_main(row, col) : row \in sw.row..ne.row,
                                      col \in sw.col..ne.col } |->
            LET row == parseInt(kk[1])
                col == parseInt(kk[2])
            IN  [row |-> row, col |-> col,
                 val |-> getEffectiveValue_main(g, row, col),
                 rangeOK |-> inRange_main(row, col)]]]

handleCellClickPlaces_main(g, row, col) ==
  IF ~inRange_main(row, col) THEN g
  ELSE
    LET cellVal == getEffectiveValue_main(g, row, col)
    IN  IF g.inventory = Null
        THEN IF cellVal > 0
             THEN LET g1 == [g EXCEPT !.inventory = Holding(cellVal)]
                      g2 == setEffectiveValue_main(g1, row, col, 0)
                  IN  drawGridCells(saveMemento_main(g2))
             ELSE g
        ELSE
          LET held == g.inventory[1]
          IN  IF cellVal = held /\ held > 0
              THEN LET newVal == held * 2
                       g2 == [setEffectiveValue_main(g, row, col, newVal)
                                EXCEPT !.inventory = Null]
                       g3 == drawGridCells(saveMemento_main(g2))
                   IN  IF newVal >= TARGET_main
                       THEN [g3 EXCEPT !.alerts = @ + 1]
                       ELSE g3
              ELSE IF cellVal = 0
              THEN LET g2 == [setEffectiveValue_main(g, row, col, held)
                                EXCEPT !.inventory = Null]
                   IN  drawGridCells(saveMemento_main(g2))
              ELSE g

handleCellClickSavesEarly_main(g, row, col) ==
  IF ~inRange_main(row, col) THEN g
  ELSE
    LET cellVal == getEffectiveValue_main(g, row, col)
    IN  IF g.inventory = Null
        THEN IF cellVal > 0
             THEN LET g1 == [g EXCEPT !.inventory = Holding(cellVal)]
                      g2 == setEffectiveValue_main(g1, row, col, 0)
                  IN  drawGridCells(saveMemento_main(g2))
             ELSE g
        ELSE
          LET held == g.inventory[1]
          IN  IF cellVal = held /\ held > 0
              THEN LET newVal == held * 2
                       g2 == [setEffectiveValue_main(g, row, col, newVal)
                                EXCEPT !.inventory = Null]
                       g3 == drawGridCells(g2)
                   IN  IF newVal >= TARGET_main
                       THEN [g3 EXCEPT !.alerts = @ + 1]
                       ELSE g3
              ELSE g

handleCellClick_main(g, row, col) ==
  IF ~inRange_main(row, col) THEN g
  ELSE
    LET cellVal == getEffectiveValue_main(g, row, col)
    IN  IF g.inventory = Null
        THEN IF cellVal > 0
             THEN LET g1 == [g EXCEPT !.inventory = Holding(cellVal)]
                      g2 == setEffectiveValue_main(g1, row, col, 0)
                  IN  drawGridCells(saveMemento_main(g2))
             ELSE g
        ELSE
          LET held == g.inventory[1]
          IN  IF cellVal = held /\ held > 0
              THEN LET newVal == held * 2
                       g2 == [setEffectiveValue_main(g, row, col, newVal)
                                EXCEPT !.inventory = Null]
                       g3 == drawGridCells(saveMemento_main(g2))
                   IN  IF newVal >= TARGET_main
                       THEN [g3 EXCEPT !.alerts = @ + 1]
                       ELSE g3
              ELSE g

(* the viewports of this revision show row 0, columns 0..c1 *)
Viewport_main(c1) ==
  [sw |-> [lat |-> 0, lng |-> 0],
   ne |-> [lat |-> 1, lng |-> CELL_DEG * c1 + 1]]

Viewports_main == { Viewport_main(c1) : c1 \in (MaxCol - 1)..MaxCol }

Cur_main ==
  [overrides |-> tokenStore, inventory |-> inventory,
   drawn |-> visibleCells, mapBounds |-> mapBounds,
   storage |-> localStorage, alerts |-> 0]

Commit_main(g) ==
  /\ tokenStore' = g.overrides
  /\ inventory' = g.inventory
  /\ visibleCells' = g.drawn
  /\ mapBounds' = g.mapBounds
  /\ localStorage' = g.storage
  /\ alerts' = g.alerts
  /\ positions' = 0
  /\ UNCHANGED <<fixed, playerCell, currentMovementMode, lastMemento,
                 saveTimer, redrawTimer, redraws, buttonCell, watchId, geoAvailable,
                 uncaught, clock, feed>>

(* initMap: load, draw; with USE_GEOLOCATION false it returns before       *)
(* checkWin                                                                *)
initMap_main(storage) ==
  drawGridCells(loadMemento_main(
    [overrides |-> <<>>, inventory |-> Null, drawn |-> <<>>,
     mapBounds |-> Viewport_main(MaxCol), storage |-> storage,
     alerts |-> 0]))

Init_main ==
  /\ revision = "main"
  /\ mergeResultInHand = FALSE
  /\ luckSeed \in 1..NumSeeds
  /\ geoAvailable = TRUE
  /\ localStorage = initMap_main(<<>>).storage
  /\ redrawTimer = FALSE
  /\ redraws = 0
  /\ tokenStore = initMap_main(<<>>).overrides
  /\ inventory = initMap_main(<<>>).inventory
  /\ playerCell = originCell
  /\ currentMovementMode = "buttons"
  /\ lastMemento = Null
  /\ saveTimer = FALSE
  /\ visibleCells = initMap_main(<<>>).drawn
  /\ mapBounds = initMap_main(<<>>).mapBounds
  /\ alerts = 0
  /\ positions = 0
  /\ buttonCell = originCell
  /\ watchId = FALSE
  /\ uncaught = FALSE
  /\ saveAge = 0
  /\ sinceTrigger = SAVE_DELAY
  /\ watches = 0
  /\ fallbacks = 0
  /\ lastEvent = Event("initMap", 0, 0)

(* a click on a drawn rectangle *)
Click_main ==
  \E kk \in DOMAIN visibleCells :
    LET row == visibleCells[kk].row
        col == visibleCells[kk].col
    IN  /\ inventory # Null
             /\ getEffectiveValue_main(Cur_main, row, col) = inventory[1]
             => 2 * inventory[1] <= TARGET
        /\ Commit_main(handleCellClick_main(Cur_main, row, col))
        /\ lastEvent' = Event("click", row, col)

(* the map's "moveend" event after the viewport changed: the grid is       *)
(* redrawn ("move" has no listener in this revision)                       *)
MapMoveEndTo_main(viewports) ==
  \E b \in viewports :
    /\ Commit_main(drawGridCells([Cur_main EXCEPT !.mapBounds = b]))
    /\ lastEvent' = Event("moveend", 0, 0)

MapMoveEnd_main == MapMoveEndTo_main(Viewports_main)

-----------------------------------------------------------------------------
(* Winning.  MERGE_RESULT_IN_HAND is a setting of the build (spec.md lists *)
(* the merge-result policy among the configuration constants): a run of    *)
(* the persistence revision is followed under either value.                *)

WinViewports == { InitialViewport, Viewport(MaxCol - 1) }

InitWin == InitPersistence(BOOLEAN) \/ Init_main

NextWin ==
  \/ revision = "persistence" /\ ClickUpTo(TARGET)
  \/ revision = "persistence" /\ MapMoveTo(WinViewports)
  \/ revision = "persistence" /\ MapMoveEnd
  \/ revision = "persistence" /\ RedrawTimerFire
  \/ revision = "persistence" /\ GeoError
  \/ revision = "main" /\ Click_main
  \/ revision = "main" /\ MapMoveEnd_main

SpecWin == InitWin /\ [][NextWin]_vars

TargetOf == IF revision = "persistence" THEN TARGET ELSE TARGET_main

EffectiveByKey(key) ==
  IF key \in DOMAIN tokenStore THEN tokenStore[key] ELSE Baseline(key)

(* C9: in the persistence revision a handler that brings the held value to *)
(* a value >= TARGET raises the win alert once, and no later handler that  *)
(* leaves the inventory unchanged (a render, a sync, a position update)    *)
(* raises it again.                                                        *)
WinSignalledOnce ==
  [][revision = "persistence" =>
       /\ inventory' # inventory /\ inventory' # Null
             /\ inventory'[1] >= TARGET
           => alerts' = 1
       /\ inventory' = inventory /\ inventory # Null
             /\ inventory[1] >= TARGET
           => alerts' = 0]_vars

-----------------------------------------------------------------------------
(* The range policy.  In the persistence revision the player follows the   *)
(* live fixes, far ones included, and the D-pad; in src/src/main.ts, built *)
(* with USE_GEOLOCATION false, the player stays at originCell and the      *)
(* viewport can show columns out of its reach.                             *)

WideViewports_main ==
  { Viewport_main(c1) : c1 \in {MaxCol, INTERACT_RANGE + 1} }

NextRange ==
  \/ revision = "persistence" /\ SessionClick
  \/ revision = "persistence" /\ MapMoveEnd
  \/ revision = "persistence" /\ GeoPosition
  \/ revision = "persistence" /\ ToggleMode
  \/ revision = "persistence" /\ PadStep
  \/ revision = "main" /\ Click_main
  \/ revision = "main" /\ MapMoveEndTo_main(WideViewports_main)

SpecRange == (Init \/ Init_main) /\ [][NextRange]_vars

(* C28: the reachability shown for a cell is that of its Chebyshev         *)
(* distance from the playerCell the last position update left, and a click *)
(* on an occupied cell with a free hand picks the token up exactly when    *)
(* that distance is at most INTERACT_RANGE.                                *)
RangePolicy ==
  /\ [](\A kk \in DOMAIN visibleCells :
          visibleCells[kk].rangeOK
            <=> Chebyshev(visibleCells[kk].row, visibleCells[kk].col)
                  <= INTERACT_RANGE)
  /\ [][/\ lastEvent'.op = "click"
         /\ inventory = Null
         /\ EffectiveByKey(<<numeral(lastEvent'.row),
                             numeral(lastEvent'.col)>>) > 0
         => (inventory' # Null
               <=> Chebyshev(lastEvent'.row, lastEvent'.col)
                     <= INTERACT_RANGE)]_vars

(* a live fix has taken the player away: of the cells in view one is in    *)
(* reach and another is not                                                *)
MovedOutOfReach ==
  /\ lastEvent.op = "geoPosition"
  /\ playerCell # latLngToCell(CLASSROOM.lat, CLASSROOM.lng)
  /\ \E kk \in DOMAIN visibleCells : visibleCells[kk].rangeOK
  /\ \E kk \in DOMAIN visibleCells : ~visibleCells[kk].rangeOK

-----------------------------------------------------------------------------
(* Histories.  Clicks, changes of the viewport with their syncs and        *)
(* evictions, position fixes, saves and reloads of the page.               *)

NextHistory ==
  \/ PlainClick
  \/ MapMove
  \/ MapMoveEnd
  \/ GeoPositionIn(NearFixes)
  \/ SaveTimerFire
  \/ Reload

SpecHistory == Init /\ [][NextHistory]_vars

(* the cells a viewport or a fix of the model can name *)
NamedCells ==
  { <<p.row, p.col>> : p \in PlayerBox \cup FarCells }
    \cup { <<0, c>> : c \in 0..MaxCol }

-----------------------------------------------------------------------------
(* Placing in src/src/main.ts *)

NextMain ==
  \/ Click_main
  \/ MapMoveEndTo_main(WideViewports_main)

SpecMain == Init_main /\ [][NextMain]_vars

(* C30: in src/src/main.ts a click on an in-range cell of effective value  *)
(* 0 while the hand holds h leaves the cell's effective value h and the    *)
(* inventory empty.                                                        *)
PlaceInMain ==
  [][LET key == <<numeral(lastEvent'.row), numeral(lastEvent'.col)>>
     IN  /\ lastEvent'.op = "click"
         /\ inventory # Null
         /\ inRange_main(lastEvent'.row, lastEvent'.col)
         /\ EffectiveByKey(key) = 0
         => /\ key \in DOMAIN tokenStore'
            /\ tokenStore'[key] = inventory[1]
            /\ inventory' = Null]_vars

(* the effective value, after the step, of the cell a key names *)
EffectiveByKeyAfter(key) ==
  IF key \in DOMAIN tokenStore' THEN tokenStore'[key] ELSE Baseline(key)

(* C31: in src/src/main.ts a click on an in-range cell whose effective     *)
(* value equals the held h > 0 leaves the cell's effective value 2h and    *)
(* the inventory empty, and the state it leaves in the storage holds that  *)
(* value for the cell and no inventory.                                    *)
MergeIntoCell ==
  [][LET key == <<numeral(lastEvent'.row), numeral(lastEvent'.col)>>
     IN  /\ lastEvent'.op = "click"
         /\ inventory # Null
         /\ inventory[1] > 0
         /\ inRange_main(lastEvent'.row, lastEvent'.col)
         /\ EffectiveByKey(key) = inventory[1]
         => /\ EffectiveByKeyAfter(key) = 2 * inventory[1]
            /\ inventory' = Null
            /\ localStorage' # <<>>
            /\ key \in DOMAIN localStorage'[1].overrides
            /\ localStorage'[1].overrides[key] = 2 * inventory[1]
            /\ localStorage'[1].inventory = Null]_vars

(* the last click merged the held token into the cell: the cell holds a    *)
(* value that is not its baseline, the hand is empty, and the storage      *)
(* holds both                                                              *)
MergedIntoCell ==
  LET key == <<numeral(lastEvent.row), numeral(lastEvent.col)>>
  IN  /\ lastEvent.op = "click"
      /\ inventory = Null
      /\ key \in DOMAIN tokenStore
      /\ tokenStore[key] > Baseline(key)
      /\ tokenStore[key] = 2 * Baseline(key)
      /\ localStorage # <<>>
      /\ localStorage[1].overrides = tokenStore
      /\ localStorage[1].inventory = Null

-----------------------------------------------------------------------------
(* The views.  Clicks, changes of the viewport and their syncs, live fixes *)
(* near and far, and the toggle of the movement source.                    *)

NextView ==
  \/ SessionClick
  \/ MapMove
  \/ MapMoveEnd
  \/ RedrawTimerFire
  \/ GeoPosition
  \/ ToggleMode

SpecView == Init /\ [][NextView]_vars

(* C32: after every handler, the value and the reachability last pushed to *)
(* each live CellView are the effective value of its cell and whether the  *)
(* cell is within INTERACT_RANGE of the current playerCell.                *)
ViewFollowsModel ==
  \A kk \in DOMAIN visibleCells :
    /\ visibleCells[kk].val = EffectiveByKey(kk)
    /\ visibleCells[kk].rangeOK
         <=> Chebyshev(visibleCells[kk].row, visibleCells[kk].col)
               <= INTERACT_RANGE

(* a token was picked up after a fix took the player away: the view of the *)
(* clicked cell shows it empty, and a view is shown out of reach           *)
PickedUpAway ==
  LET key == <<numeral(lastEvent.row), numeral(lastEvent.col)>>
  IN  /\ lastEvent.op = "click"
      /\ inventory # Null
      /\ playerCell # latLngToCell(CLASSROOM.lat, CLASSROOM.lng)
      /\ key \in DOMAIN visibleCells
      /\ visibleCells[key].val = 0
      /\ Baseline(key) > 0
      /\ \E kk \in DOMAIN visibleCells : ~visibleCells[kk].rangeOK

-----------------------------------------------------------------------------
(* The frame of a sync *)

(* C33: in every state syncGridToPlayerWindow leaves the inventory and     *)
(* playerCell as they are, adds no override and changes the value of none; *)
(* the overrides it removes are those of views that left the window, and   *)
(* it removes any only with MEMORYLESS; and the steps that only sync       *)
(* ("moveend", the resync timer) change the state in no other way.         *)
SyncFrame ==
  /\ [](LET synced  == syncGridToPlayerWindow(Cur)
            left    == DOMAIN visibleCells
                         \ WindowKeys(playerVisibleCellRange(Cur))
            removed == DOMAIN tokenStore \ DOMAIN synced.tokenStore
        IN  /\ synced.inventory = inventory
            /\ synced.playerCell = playerCell
            /\ DOMAIN synced.tokenStore \subseteq DOMAIN tokenStore
            /\ \A key \in DOMAIN synced.tokenStore :
                 synced.tokenStore[key] = tokenStore[key]
            /\ removed \subseteq left
            /\ removed # {} => MEMORYLESS)
  /\ [][lastEvent'.op \in {"moveend", "redraw"}
         => /\ UNCHANGED <<inventory, playerCell>>
            /\ tokenStore' = syncGridToPlayerWindow(Cur).tokenStore
            /\ DOMAIN tokenStore' \subseteq DOMAIN tokenStore]_vars

(* the resync timer ran after the viewport was narrowed: the override of   *)
(* the cell the held token was taken from is gone with its view            *)
SyncEvicted ==
  /\ lastEvent.op = "redraw"
  /\ inventory # Null
  /\ DOMAIN tokenStore = {}
  /\ mapBounds # InitialViewport

-----------------------------------------------------------------------------
(* Farming *)

(* C34: no step but a click changes the inventory, an eviction included,   *)
(* and a cell that enters the window has no override and shows its         *)
(* baseline, whatever was taken from it before it left: the token of a     *)
(* cell can be collected again while the one taken earlier is held.        *)
Farming ==
  [][/\ lastEvent'.op # "click" => inventory' = inventory
     /\ \A kk \in DOMAIN visibleCells' \ DOMAIN visibleCells :
          /\ kk \notin DOMAIN tokenStore'
          /\ visibleCells'[kk].val = Baseline(kk)]_vars

(* under the first luck function the cells in view hold 2, 4 and 2: the    *)
(* hand holds 16, whose second half was collected from a cell that had     *)
(* been emptied, had left the window and had come back                     *)
Farmed ==
  /\ luckSeed = 1
  /\ \A c \in 0..MaxCol : Baseline(<<numeral(0), numeral(c)>>) < 8
  /\ lastEvent.op = "click"
  /\ inventory = Holding(16)

-----------------------------------------------------------------------------
(* The frame of a click *)

(* the keys of the cells in view and of the overrides, before and after *)
KnownKeys ==
  DOMAIN visibleCells \cup DOMAIN tokenStore \cup DOMAIN tokenStore'

(* C35: a click on a cell leaves every other cell with the override entry  *)
(* and the effective value it had.                                         *)
ClickLocality ==
  [][lastEvent'.op = "click" =>
       \A key \in KnownKeys \ {keyOf(lastEvent'.row, lastEvent'.col)} :
         /\ key \in DOMAIN tokenStore <=> key \in DOMAIN tokenStore'
         /\ key \in DOMAIN tokenStore => tokenStore'[key] = tokenStore[key]
         /\ EffectiveByKeyAfter(key) = EffectiveByKey(key)]_vars

(* the last click wrote its cell while another cell had an override *)
ClickedBesideOverride ==
  LET key == keyOf(lastEvent.row, lastEvent.col)
  IN  /\ lastEvent.op = "click"
      /\ key \in DOMAIN tokenStore
      /\ tokenStore[key] > 0
      /\ inventory = Null
      /\ DOMAIN tokenStore \ {key} # {}

-----------------------------------------------------------------------------
(* Conservation.  Play under either merge policy, with changes of the      *)
(* viewport, loads of the page and the "New game" button.                  *)

NextTotal ==
  \/ SessionClick
  \/ MapMoveTo(WinViewports)
  \/ MapMoveEnd
  \/ Reload
  \/ NewGame

SpecTotal == InitPersistence(BOOLEAN) /\ [][NextTotal]_vars

(* the cells of the region: those a viewport of the model can show *)
RegionKeys == { keyOf(0, c) : c \in 0..MaxCol }

RECURSIVE SumOver(_, _)
SumOver(keys, f) ==
  IF keys = {} THEN 0
  ELSE LET key == CHOOSE key \in keys : TRUE
       IN  f[key] + SumOver(keys \ {key}, f)

Total ==
  (IF inventory = Null THEN 0 ELSE inventory[1])
    + SumOver(RegionKeys, [key \in RegionKeys |-> EffectiveByKey(key)])

TotalAfter ==
  (IF inventory' = Null THEN 0 ELSE inventory'[1])
    + SumOver(RegionKeys, [key \in RegionKeys |-> EffectiveByKeyAfter(key)])

(* C36: a click leaves the held value plus the effective values of the     *)
(* cells of the region as it was, and a step that changes that total is a  *)
(* sync that evicts, a load of the page or a confirmed "New game".         *)
ValueConservation ==
  [][/\ lastEvent'.op = "click" => TotalAfter = Total
     /\ TotalAfter # Total =>
          \/ lastEvent'.op \in {"initMap", "newGame"}
          \/ /\ lastEvent'.op \in {"moveend", "redraw"}
             /\ DOMAIN tokenStore \ DOMAIN tokenStore' # {}]_vars

(* with the result of a merge written to the cell, the last click merged   *)
(* the held token into a cell: the cell holds both, the hand nothing       *)
MergedConserving ==
  LET key == keyOf(lastEvent.row, lastEvent.col)
  IN  /\ lastEvent.op = "click"
      /\ ~mergeResultInHand
      /\ inventory = Null
      /\ key \in DOMAIN tokenStore
      /\ tokenStore[key] = 2 * Baseline(key)
      /\ Baseline(key) > 0

-----------------------------------------------------------------------------
(* Pick-up and place *)

(* C37: in every state with a free hand, for every in-range cell in view   *)
(* that holds a token, a click on the cell followed at once by a second    *)
(* click on it leaves the hand free and the override store as it was: an   *)
(* entry for the cell only if there was one, with the value it had.        *)
PickUpPlaceRoundTrip ==
  inventory = Null =>
    \A rc \in ViewCells :
      /\ inRange(Cur, rc[1], rc[2])
      /\ getEffectiveValue(Cur, rc[1], rc[2]) > 0
      => LET picked == handleCellClick(Cur, rc[1], rc[2])
             placed == handleCellClick(picked, rc[1], rc[2])
         IN  /\ picked.inventory
                  = Holding(getEffectiveValue(Cur, rc[1], rc[2]))
             /\ getEffectiveValue(picked, rc[1], rc[2]) = 0
             /\ placed.inventory = Null
             /\ DOMAIN placed.tokenStore = DOMAIN tokenStore
             /\ \A key \in DOMAIN tokenStore :
                  placed.tokenStore[key] = tokenStore[key]

(* two clicks in a row on a cell: the first took its baseline token, the   *)
(* second put it back, and the cell has no entry, while a cell whose       *)
(* baseline is 0 holds a token by an override                              *)
PutBackAtOnce ==
  LET key == keyOf(lastEvent.row, lastEvent.col)
  IN  /\ lastEvent.op = "click"
      /\ inventory = Null
      /\ lastMemento # Null
      /\ HeldIn(lastMemento[1]) = Holding(Baseline(key))
      /\ Baseline(key) > 0
      /\ key \notin DOMAIN tokenStore
      /\ \E other \in DOMAIN tokenStore :
           tokenStore[other] > 0 /\ Baseline(other) = 0

-----------------------------------------------------------------------------
(* The store and the window.  The map is panned one cell to the east; the  *)
(* page is loaded with the map on CLASSROOM again.                         *)

PannedViewport ==
  [sw |-> [lat |-> InitialViewport.sw.lat,
           lng |-> InitialViewport.sw.lng + CELL_DEG],
   ne |-> [lat |-> InitialViewport.ne.lat,
           lng |-> InitialViewport.ne.lng + CELL_DEG]]

MapPan == MapMoveTo({PannedViewport})

NextConfined ==
  \/ PlainClick
  \/ MapPan
  \/ RedrawTimerFire
  \/ SaveTimerFire
  \/ Reload

SpecConfined == Init /\ [][NextConfined]_vars

(* C38: right after every sync, the first sync of a page that restored a   *)
(* snapshot included, every key of tokenStore is the key of a live         *)
(* CellView.                                                               *)
StoreConfined ==
  lastEvent.op \in SyncEvents => DOMAIN tokenStore \subseteq DOMAIN visibleCells

-----------------------------------------------------------------------------
(* The overrides of src/src/main.ts *)

(* C39: in src/src/main.ts, from the empty overrides map, no sequence of   *)
(* clicks and redraws leaves an override whose value is the baseline of    *)
(* its cell.                                                               *)
MinimalityInMain ==
  \A key \in DOMAIN tokenStore :
    tokenStore[key]
      # baseTokenValue_main(parseInt(key[1]), parseInt(key[2]))

(* the overrides hold an emptied cell and a cell a merge wrote *)
EmptiedAndMerged ==
  /\ lastEvent.op = "click"
  /\ \E key \in DOMAIN tokenStore : tokenStore[key] = 0
  /\ \E key \in DOMAIN tokenStore : tokenStore[key] > 0

-----------------------------------------------------------------------------
(* The memento in memory *)

(* C40: after every click, _lastMemento is serializeState() of the state   *)
(* the click left: its tokens, inventory and playerCell are the current    *)
(* ones.                                                                   *)
MementoCurrent ==
  lastEvent.op = "click" =>
    /\ lastMemento # Null
    /\ lastMemento[1] = serializeState(Cur)
    /\ TokensIn(lastMemento[1]) = tokenStore
    /\ HeldIn(lastMemento[1]) = inventory

====
